---------------------------- MODULE Spec2Model ----------------------------
(***************************************************************************)
(* Model of the GoldenHandQuant trading core: the Order, Position and      *)
(* Asset entities and the in-memory matching engine MockTradeGateway.      *)
(*                                                                         *)
(* Money is held in integer units of 1/Scale yuan; rates are numerators    *)
(* over RateDen.  The bars, volumes and capitals enumerated below lie on   *)
(* the grid on which every product of the fee schedule is a whole number   *)
(* of units, so the arithmetic of the source is reproduced exactly.        *)
(* Quotients that need not be whole (average cost, average traded price)   *)
(* are exact mixed rationals [w, n, d] = w + n/d with 0 <= n < d.          *)
(***************************************************************************)
EXTENDS Integers, Sequences, FiniteSets, TLC

VARIABLES
    asset,          \* MockTradeGateway.asset
    positions,      \* MockTradeGateway.positions : ticker -> Position
    trade_records,  \* MockTradeGateway.trade_records
    orders,         \* MockTradeGateway.orders : order_id -> Order object (index into pool)
    pool,           \* the Order objects the caller has constructed
    last,           \* the gateway call that produced this state and its outcome
    ord,            \* a stand-alone Order entity
    ordCall,        \* the Order method last called on ord, and ord before it
    pos,            \* a stand-alone Position entity
    posCall,        \* the Position method last called on pos, and pos before it
    mkt,            \* MockMarketGateway: data and _current_time
    mktCall,        \* the MockMarketGateway method last called and its result
    bt              \* BacktestAppService.run_backtest: its locals and position

gwVars  == <<asset, positions, trade_records, orders, pool, last>>
ordVars == <<ord, ordCall>>
posVars == <<pos, posCall>>
mktVars == <<mkt, mktCall>>
appVars == <<mkt, mktCall, bt>>
vars    == <<asset, positions, trade_records, orders, pool, last,
             ord, ordCall, pos, posCall, mkt, mktCall, bt>>

-----------------------------------------------------------------------------
(* Bounds and fixed-point representation *)

\* number of orders the gateway accepts
MaxOrders == 2

\* largest order volume of the stand-alone Order entity
MaxOrdVolume == 3

\* largest total_volume of the stand-alone Position entity
MaxPosVolume == 4

\* largest denominator of an average cost the Position specification explores
MaxCostDen == 4

\* largest number of shares bought into a position between two moments at
\* which it is empty (cost-basis specification)
MaxBought == 5

\* latest clock value and bar timestamp of the market gateway
MaxTime == 3

\* largest number of bars loaded into the market gateway
MaxBars == 3

\* largest limit asked of get_recent_bars
MaxLimit == 2

\* last day of a backtest range
MaxDate == 2

\* largest number of signals a strategy returns during one backtest
MaxEmitted == 2

\* largest number of signals a strategy returns at once
MaxSignals == 2

\* largest number of bars of a symbol handed to a strategy
MaxStratBars == 12

\* largest number of snapshots handed to the evaluator
MaxSnapshots == 3

\* largest total_asset of a snapshot handed to the evaluator
MaxEvalAsset == 3

\* largest number of trades handed to the evaluator
MaxTrades == 2

\* largest total_asset of a stand-alone asset, in yuan
MaxCash == 5

\* largest amount asked of a stand-alone asset, in yuan
MaxAmount == 3

\* largest number of signals a strategy answers in one trading cycle
MaxCycleSignals == 2

\* largest number of orders a trading service builds over its cycles
MaxCycleOrders == 2

\* money units per yuan
Scale == 20000

\* denominator of the rates below
RateDen == 100000

COMMISSION_RATE == 25
MIN_COMMISSION == 5 * Scale
STAMP_DUTY_RATE == 50
TRANSFER_FEE_RATE == 1
SLIPPAGE_BUY == 100
SLIPPAGE_SELL == 100
CAPACITY_LIMIT_RATIO == 10000

Tickers == {"A", "B"}

\* bars the market gateway may serve as the latest bar of a ticker
Bars == { [close |-> 0,           volume |-> 1000],
          [close |-> 150 * Scale, volume |-> 2000],
          [close |-> 150 * Scale, volume |-> 500] }

\* Bar validates nothing, so a close below zero (-0.01 yuan) can be served as
\* well.  That bar lies off the grid: its amounts are rounded down to the
\* unit (less than 0.01 yuan); the branches taken are those of the source.
SignedBars == { [close |-> -200,        volume |-> 1000],
                [close |-> 150 * Scale, volume |-> 2000] }

BuyVolumes == {100, 200}
SellVolumes == {50, 200}

\* 30037.8078 yuan: exactly the cost of buying 200 shares at close 150
InitialCapitals == {30037 * Scale + 16156}

-----------------------------------------------------------------------------
(* Arithmetic *)

Max(a, b) == IF a >= b THEN a ELSE b
Min(a, b) == IF a <= b THEN a ELSE b

RECURSIVE GCD(_, _)
GCD(a, b) == IF b = 0 THEN a ELSE GCD(b, a % b)

\* x * num / den, evaluated without leaving the 32-bit range
MulRate(x, num, den) == (x \div den) * num + ((x % den) * num) \div den

\* mixed rational w + n/d in lowest terms
QNorm(w, n, d) ==
    LET c  == w + (n \div d)
        r  == n % d
        g  == GCD(d, r)
    IN  [w |-> c, n |-> r \div g, d |-> d \div g]

QInt(i) == [w |-> i, n |-> 0, d |-> 1]
QZero == QInt(0)
QAdd(a, b) == QNorm(a.w + b.w, a.n * b.d + b.n * a.d, a.d * b.d)
QNeg(a) == IF a.n = 0 THEN QInt(-a.w) ELSE [w |-> -a.w - 1, n |-> a.d - a.n, d |-> a.d]
QMulInt(a, k) == QNorm(a.w * k, a.n * k, a.d)
QDivInt(a, k) == QNorm(a.w \div k, (a.w % k) * a.d + a.n, a.d * k)

-----------------------------------------------------------------------------
(* Order entity (domain/trade/order.py) *)

OrderStatus == {"CREATED", "SUBMITTED", "PARTIAL_FILLED", "FILLED",
                "CANCELED", "REJECTED", "PARTIAL_CANCELED"}

\* Order.__post_init__: the orders that can be constructed
OrderValid(direction, volume) ==
    /\ volume > 0
    /\ direction = "BUY" => volume % 100 = 0

NewOrder(id, ticker, direction, volume) ==
    [order_id |-> id, ticker |-> ticker, direction |-> direction,
     volume |-> volume, status |-> "CREATED",
     traded_volume |-> 0, traded_price |-> QZero]

\* Each method yields [ok, o]: ok = FALSE when the method raises.
submit(o) ==
    IF o.status # "CREATED"
    THEN [ok |-> FALSE, o |-> o]
    ELSE [ok |-> TRUE, o |-> [o EXCEPT !.status = "SUBMITTED"]]

\* on_fill keeping the price of the last fill
on_fill_last_price(o, fill_volume, fill_price) ==
    IF o.status \notin {"SUBMITTED", "PARTIAL_FILLED"}
    THEN [ok |-> FALSE, o |-> o]
    ELSE IF fill_volume <= 0
    THEN [ok |-> TRUE, o |-> o]
    ELSE LET new_traded_volume == o.traded_volume + fill_volume
         IN  IF new_traded_volume > o.volume
             THEN [ok |-> FALSE, o |-> o]
             ELSE [ok |-> TRUE,
                   o |-> [o EXCEPT
                       !.traded_price = QInt(fill_price),
                       !.traded_volume = new_traded_volume,
                       !.status = IF new_traded_volume = o.volume
                                  THEN "FILLED" ELSE "PARTIAL_FILLED"]]

on_fill(o, fill_volume, fill_price) ==
    IF o.status \notin {"SUBMITTED", "PARTIAL_FILLED"}
    THEN [ok |-> FALSE, o |-> o]
    ELSE IF fill_volume <= 0
    THEN [ok |-> TRUE, o |-> o]
    ELSE LET new_traded_volume == o.traded_volume + fill_volume
             current_value == QMulInt(o.traded_price, o.traded_volume)
             new_fill_value == QInt(fill_volume * fill_price)
         IN  IF new_traded_volume > o.volume
             THEN [ok |-> FALSE, o |-> o]
             ELSE [ok |-> TRUE,
                   o |-> [o EXCEPT
                       !.traded_price = QDivInt(QAdd(current_value, new_fill_value),
                                                new_traded_volume),
                       !.traded_volume = new_traded_volume,
                       !.status = IF new_traded_volume = o.volume
                                  THEN "FILLED" ELSE "PARTIAL_FILLED"]]

cancel(o) ==
    CASE o.status = "SUBMITTED" ->
            [ok |-> TRUE, o |-> [o EXCEPT !.status = "CANCELED"]]
      [] o.status = "PARTIAL_FILLED" ->
            [ok |-> TRUE, o |-> [o EXCEPT !.status = "PARTIAL_CANCELED"]]
      [] OTHER -> [ok |-> FALSE, o |-> o]

\* reject also accepted after a partial fill
reject_after_partial_fill(o) ==
    IF o.status \notin {"SUBMITTED", "PARTIAL_FILLED"}
    THEN [ok |-> FALSE, o |-> o]
    ELSE [ok |-> TRUE, o |-> [o EXCEPT !.status = "REJECTED"]]

reject(o) ==
    IF o.status # "SUBMITTED"
    THEN [ok |-> FALSE, o |-> o]
    ELSE [ok |-> TRUE, o |-> [o EXCEPT !.status = "REJECTED"]]

-----------------------------------------------------------------------------
(* Position entity (domain/account/position.py) *)

NewPosition == [total_volume |-> 0, available_volume |-> 0, average_cost |-> QZero]

\* on_buy_filled averaging the old cost and the new price without their volumes
on_buy_filled_unweighted(p, volume, price) ==
    IF volume <= 0 \/ price < 0
    THEN [ok |-> FALSE, p |-> p]
    ELSE LET total == p.total_volume + volume
         IN  [ok |-> TRUE,
              p |-> [p EXCEPT
                  !.total_volume = total,
                  !.average_cost =
                      IF p.total_volume = 0 THEN QInt(price)
                      ELSE QDivInt(QAdd(p.average_cost, QInt(price)), 2)]]

\* Each method yields [ok, p]: ok = FALSE when the method raises.
on_buy_filled(p, volume, price) ==
    IF volume <= 0 \/ price < 0
    THEN [ok |-> FALSE, p |-> p]
    ELSE LET current_total_cost == QMulInt(p.average_cost, p.total_volume)
             new_cost_basis == QInt(volume * price)
             total == p.total_volume + volume
         IN  [ok |-> TRUE,
              p |-> [p EXCEPT
                  !.total_volume = total,
                  !.average_cost =
                      IF total > 0
                      THEN QDivInt(QAdd(current_total_cost, new_cost_basis), total)
                      ELSE QZero]]

\* on_sell_filled checking the sale against total_volume
on_sell_filled_checks_total(p, volume, price) ==
    IF volume <= 0 \/ volume > p.total_volume
    THEN [ok |-> FALSE, p |-> p]
    ELSE LET total == p.total_volume - volume
         IN  [ok |-> TRUE,
              p |-> [p EXCEPT
                  !.total_volume = total,
                  !.available_volume = p.available_volume - volume,
                  !.average_cost = IF total = 0 THEN QZero ELSE p.average_cost]]

on_sell_filled(p, volume, price) ==
    IF volume <= 0 \/ volume > p.available_volume
    THEN [ok |-> FALSE, p |-> p]
    ELSE LET total == p.total_volume - volume
         IN  [ok |-> TRUE,
              p |-> [p EXCEPT
                  !.total_volume = total,
                  !.available_volume = p.available_volume - volume,
                  !.average_cost = IF total = 0 THEN QZero ELSE p.average_cost]]

\* settle_t_plus_1 dropping the shares bought on the day
settle_t_plus_1_dropping_unsettled(p) == [p EXCEPT !.total_volume = p.available_volume]

settle_t_plus_1(p) == [p EXCEPT !.available_volume = p.total_volume]

-----------------------------------------------------------------------------
(* Asset entity (domain/account/asset.py) *)

NewAsset(initial_capital) ==
    [total_asset |-> initial_capital, available_cash |-> initial_capital,
     frozen_cash |-> 0]

\* freeze_cash without the check against available_cash
freeze_cash_unchecked(a, amount) ==
    IF amount <= 0
    THEN [ok |-> FALSE, a |-> a]
    ELSE [ok |-> TRUE,
          a |-> [a EXCEPT !.available_cash = a.available_cash - amount,
                          !.frozen_cash = a.frozen_cash + amount]]

\* Each method yields [ok, a]: ok = FALSE when the method raises.
freeze_cash(a, amount) ==
    IF amount <= 0 \/ amount > a.available_cash
    THEN [ok |-> FALSE, a |-> a]
    ELSE [ok |-> TRUE,
          a |-> [a EXCEPT !.available_cash = a.available_cash - amount,
                          !.frozen_cash = a.frozen_cash + amount]]

\* unfreeze_cash returning the amount to total_asset as well
unfreeze_cash_raising_total(a, amount) ==
    IF amount <= 0 \/ amount > a.frozen_cash
    THEN [ok |-> FALSE, a |-> a]
    ELSE [ok |-> TRUE,
          a |-> [a EXCEPT !.frozen_cash = a.frozen_cash - amount,
                          !.available_cash = a.available_cash + amount,
                          !.total_asset = a.total_asset + amount]]

unfreeze_cash(a, amount) ==
    IF amount <= 0 \/ amount > a.frozen_cash
    THEN [ok |-> FALSE, a |-> a]
    ELSE [ok |-> TRUE,
          a |-> [a EXCEPT !.frozen_cash = a.frozen_cash - amount,
                          !.available_cash = a.available_cash + amount]]

\* deduct_frozen_cash lowering total_asset as well
deduct_frozen_cash_lowering_total(a, amount) ==
    IF amount <= 0 \/ amount > a.frozen_cash
    THEN [ok |-> FALSE, a |-> a]
    ELSE [ok |-> TRUE, a |-> [a EXCEPT !.frozen_cash = a.frozen_cash - amount,
                                       !.total_asset = a.total_asset - amount]]

deduct_frozen_cash(a, amount) ==
    IF amount <= 0 \/ amount > a.frozen_cash
    THEN [ok |-> FALSE, a |-> a]
    ELSE [ok |-> TRUE, a |-> [a EXCEPT !.frozen_cash = a.frozen_cash - amount]]

deposit(a, amount) ==
    IF amount <= 0
    THEN [ok |-> FALSE, a |-> a]
    ELSE [ok |-> TRUE,
          a |-> [a EXCEPT !.available_cash = a.available_cash + amount,
                          !.total_asset = a.total_asset + amount]]

-----------------------------------------------------------------------------
(* MockTradeGateway (infrastructure/mock/mock_trade.py) *)

NoBars == <<>>

\* what IMarketGateway.get_recent_bars(ticker, "1d", 1) may answer
BarAnswers == {NoBars} \cup {<<b>> : b \in Bars}

\* _calculate_costs without the minimum commission
_calculate_costs_no_minimum(price, volume, direction) ==
    LET amount == price * volume
        commission == MulRate(amount, COMMISSION_RATE, RateDen)
        transfer_fee == MulRate(amount, TRANSFER_FEE_RATE, RateDen)
        tax == IF direction = "SELL"
               THEN MulRate(amount, STAMP_DUTY_RATE, RateDen) ELSE 0
        total_fees == commission + transfer_fee + tax
    IN  [total |-> IF direction = "BUY" THEN amount + total_fees
                                        ELSE amount - total_fees,
         commission |-> commission, tax |-> tax, transfer_fee |-> transfer_fee]

_calculate_costs(price, volume, direction) ==
    LET amount == price * volume
        commission == Max(MulRate(amount, COMMISSION_RATE, RateDen), MIN_COMMISSION)
        transfer_fee == MulRate(amount, TRANSFER_FEE_RATE, RateDen)
        tax == IF direction = "SELL"
               THEN MulRate(amount, STAMP_DUTY_RATE, RateDen) ELSE 0
        total_fees == commission + transfer_fee + tax
    IN  [total |-> IF direction = "BUY" THEN amount + total_fees
                                        ELSE amount - total_fees,
         commission |-> commission, tax |-> tax, transfer_fee |-> transfer_fee]

\* The gateway state an invocation works on.
Ledger(a, ps, trs, os) ==
    [asset |-> a, positions |-> ps, trade_records |-> trs, orders |-> os]

\* lines 232-241 recording the volume asked for
TradeRecord_order_volume(o, price, volume, fees, realized_pnl) ==
    [symbol |-> o.ticker, direction |-> o.direction,
     price |-> price, volume |-> o.volume,
     commission |-> fees, realized_pnl |-> realized_pnl]

\* lines 232-241: the record of one fill (execute_at is the order's created_at,
\* remark a constant text per direction)
TradeRecord(o, price, volume, fees, realized_pnl) ==
    [symbol |-> o.ticker, direction |-> o.direction,
     price |-> price, volume |-> volume,
     commission |-> fees, realized_pnl |-> realized_pnl]

\* _simulate_fill storing the position update of a BUY only
_simulate_fill_keeping_sold_volume(g, o, price, volume, commission, tax, transfer_fee, frozen_amount) ==
    LET fees == commission + tax + transfer_fee
        \* 1. cash
        ded == deduct_frozen_cash(g.asset, frozen_amount)
        actual_cost == price * volume + commission + tax + transfer_fee
        income == price * volume - commission - tax - transfer_fee
        a1 == IF o.direction = "BUY"
              THEN [ded.a EXCEPT
                       !.available_cash = ded.a.available_cash - (actual_cost - frozen_amount),
                       !.total_asset = ded.a.total_asset - fees]
              ELSE [g.asset EXCEPT
                       !.available_cash = g.asset.available_cash + income,
                       !.total_asset = g.asset.total_asset - fees]
        \* 2. position
        held == o.ticker \in DOMAIN g.positions
        position == IF held THEN g.positions[o.ticker] ELSE NewPosition
        ps1 == IF held THEN g.positions
               ELSE [t \in DOMAIN g.positions \cup {o.ticker} |->
                        IF t = o.ticker THEN NewPosition ELSE g.positions[t]]
        cost == position.average_cost
        realized_pnl ==
            IF o.direction = "BUY" THEN QZero
            ELSE QAdd(QMulInt(QAdd(QInt(price), QNeg(cost)), volume), QInt(-fees))
        upd == IF o.direction = "BUY"
               THEN on_buy_filled(position, volume, price)
               ELSE on_sell_filled(position, volume, price)
        ps2 == IF o.direction = "SELL" THEN ps1
               ELSE [ps1 EXCEPT ![o.ticker] = upd.p]
        \* 3. order
        fill == on_fill(o, volume, price)
        o3 == IF volume < o.volume /\ fill.o.status = "PARTIAL_FILLED"
              THEN [fill.o EXCEPT !.status = "PARTIAL_CANCELED"]
              ELSE fill.o
        \* 4. trade record
        record == TradeRecord(o, price, volume, fees, realized_pnl)
    IN  IF o.direction = "BUY" /\ ~ded.ok
        THEN [ok |-> FALSE, g |-> g, o |-> o]
        ELSE IF ~upd.ok
        THEN [ok |-> FALSE, g |-> [g EXCEPT !.asset = a1, !.positions = ps1], o |-> o]
        ELSE IF ~fill.ok
        THEN [ok |-> FALSE, g |-> [g EXCEPT !.asset = a1, !.positions = ps2], o |-> o]
        ELSE [ok |-> TRUE,
              g |-> [g EXCEPT !.asset = a1, !.positions = ps2,
                              !.trade_records = Append(g.trade_records, record)],
              o |-> o3]

\* _simulate_fill on ledger g for order o; yields [ok, g, o], ok = FALSE when
\* a callee raises, g and o then holding the mutations made up to that point.
_simulate_fill(g, o, price, volume, commission, tax, transfer_fee, frozen_amount) ==
    LET fees == commission + tax + transfer_fee
        \* 1. cash
        ded == deduct_frozen_cash(g.asset, frozen_amount)
        actual_cost == price * volume + commission + tax + transfer_fee
        income == price * volume - commission - tax - transfer_fee
        a1 == IF o.direction = "BUY"
              THEN [ded.a EXCEPT
                       !.available_cash = ded.a.available_cash - (actual_cost - frozen_amount),
                       !.total_asset = ded.a.total_asset - fees]
              ELSE [g.asset EXCEPT
                       !.available_cash = g.asset.available_cash + income,
                       !.total_asset = g.asset.total_asset - fees]
        \* 2. position
        held == o.ticker \in DOMAIN g.positions
        position == IF held THEN g.positions[o.ticker] ELSE NewPosition
        ps1 == IF held THEN g.positions
               ELSE [t \in DOMAIN g.positions \cup {o.ticker} |->
                        IF t = o.ticker THEN NewPosition ELSE g.positions[t]]
        cost == position.average_cost
        realized_pnl ==
            IF o.direction = "BUY" THEN QZero
            ELSE QAdd(QMulInt(QAdd(QInt(price), QNeg(cost)), volume), QInt(-fees))
        upd == IF o.direction = "BUY"
               THEN on_buy_filled(position, volume, price)
               ELSE on_sell_filled(position, volume, price)
        ps2 == IF upd.p.total_volume = 0
               THEN [t \in DOMAIN ps1 \ {o.ticker} |-> ps1[t]]
               ELSE [ps1 EXCEPT ![o.ticker] = upd.p]
        \* 3. order
        fill == on_fill(o, volume, price)
        o3 == IF volume < o.volume /\ fill.o.status = "PARTIAL_FILLED"
              THEN [fill.o EXCEPT !.status = "PARTIAL_CANCELED"]
              ELSE fill.o
        \* 4. trade record
        record == TradeRecord(o, price, volume, fees, realized_pnl)
    IN  IF o.direction = "BUY" /\ ~ded.ok
        THEN [ok |-> FALSE, g |-> g, o |-> o]
        ELSE IF ~upd.ok
        THEN [ok |-> FALSE, g |-> [g EXCEPT !.asset = a1, !.positions = ps1], o |-> o]
        ELSE IF ~fill.ok
        THEN [ok |-> FALSE, g |-> [g EXCEPT !.asset = a1, !.positions = ps2], o |-> o]
        ELSE [ok |-> TRUE,
              g |-> [g EXCEPT !.asset = a1, !.positions = ps2,
                              !.trade_records = Append(g.trade_records, record)],
              o |-> o3]

\* Outcomes of place_order that raise OrderSubmitError
SubmitErrors == {"volume_not_positive", "no_market_data", "insufficient_liquidity",
                 "insufficient_funds", "insufficient_position"}

\* Outcomes of place_order that raise another exception
OtherErrors == {"submit_error", "freeze_error", "fill_error", "rollback_error"}

\* what a call reports besides its effect on the ledger
Call(op, i, result, bars, exec_price, max_vol, fill_volume, costs, frozen_amount) ==
    [op |-> op, idx |-> i, result |-> result, bars |-> bars,
     exec_price |-> exec_price, max_vol |-> max_vol, fill_volume |-> fill_volume,
     total_cost |-> costs.total,
     fees |-> costs.commission + costs.tax + costs.transfer_fee,
     frozen_amount |-> frozen_amount]

NoCosts == [total |-> 0, commission |-> 0, tax |-> 0, transfer_fee |-> 0]

\* place_order on ledger g for the Order object o = pool[i], the market
\* answering bars; yields [g, o, call].
place_order(g, i, o, bars) ==
    LET bar == bars[1]
        ref_price == bar.close
        exec_price == IF o.direction = "BUY"
                      THEN ref_price + MulRate(ref_price, SLIPPAGE_BUY, RateDen)
                      ELSE ref_price - MulRate(ref_price, SLIPPAGE_SELL, RateDen)
        max_vol == (MulRate(bar.volume, CAPACITY_LIMIT_RATIO, RateDen) \div 100) * 100
        fill_volume == Min(o.volume, max_vol)
        costs == _calculate_costs(exec_price, fill_volume, o.direction)
        rejected == [o EXCEPT !.status = "REJECTED"]
        sub == submit(o)
        g6 == [g EXCEPT !.orders =
                  [k \in DOMAIN g.orders \cup {o.order_id} |->
                      IF k = o.order_id THEN i ELSE g.orders[k]]]
        frozen_amount == IF o.direction = "BUY" THEN costs.total ELSE 0
        frz == freeze_cash(g6.asset, frozen_amount)
        g7 == IF o.direction = "BUY" THEN [g6 EXCEPT !.asset = frz.a] ELSE g6
        fill == _simulate_fill(g7, sub.o, exec_price, fill_volume, costs.commission,
                               costs.tax, costs.transfer_fee, frozen_amount)
        rb == deduct_frozen_cash(fill.g.asset, frozen_amount)
        rolled == [rb.a EXCEPT !.available_cash = rb.a.available_cash + frozen_amount]
        Out(g1, o1, result, fa) ==
            [g |-> g1, o |-> o1,
             call |-> Call("place_order", i, result, bars, exec_price, max_vol,
                           fill_volume, costs, fa)]
        Early(o1, result) ==
            [g |-> g, o |-> o1,
             call |-> Call("place_order", i, result, bars, 0, 0, 0, NoCosts, 0)]
    IN  IF o.volume <= 0
        THEN Early(o, "volume_not_positive")
        ELSE IF bars = NoBars
        THEN Early(o, "no_market_data")
        ELSE IF fill_volume < 100
        THEN Early(rejected, "insufficient_liquidity")
        ELSE IF o.direction = "BUY" /\ g.asset.available_cash < costs.total
        THEN Out(g, rejected, "insufficient_funds", 0)
        ELSE IF o.direction = "SELL"
                /\ (o.ticker \notin DOMAIN g.positions
                    \/ g.positions[o.ticker].available_volume < fill_volume)
        THEN Out(g, rejected, "insufficient_position", 0)
        ELSE IF ~sub.ok
        THEN Out(g, o, "submit_error", 0)
        ELSE IF o.direction = "BUY" /\ ~frz.ok
        THEN Out(g6, sub.o, "freeze_error", 0)
        ELSE IF fill.ok
        THEN Out(fill.g, fill.o, "ok", frozen_amount)
        ELSE IF frozen_amount > 0 /\ ~rb.ok
        THEN Out(fill.g, fill.o, "rollback_error", frozen_amount)
        ELSE IF frozen_amount > 0
        THEN Out([fill.g EXCEPT !.asset = rolled], fill.o, "fill_error", frozen_amount)
        ELSE Out(fill.g, fill.o, "fill_error", frozen_amount)

\* cancel_all_open_orders over the Order objects held in the orders map
cancel_all_open_orders(os, objs) ==
    [j \in DOMAIN objs |->
        IF (\E k \in DOMAIN os : os[k] = j)
           /\ objs[j].status \in {"SUBMITTED", "PARTIAL_FILLED"}
        THEN [objs[j] EXCEPT !.status = "CANCELED"]
        ELSE objs[j]]

-----------------------------------------------------------------------------
(* DailySettlementService (domain/account/services/settlement_service.py) *)

\* The service's COMMISSION_RATE, MIN_COMMISSION and TRANSFER_FEE_RATE
\* (lines 17-19) carry the values of the gateway's constants of these names.

\* an Order entity together with its limit price
PricedOrder(id, ticker, direction, volume, price) ==
    [order_id |-> id, ticker |-> ticker, direction |-> direction,
     volume |-> volume, price |-> price, status |-> "CREATED",
     traded_volume |-> 0, traded_price |-> QZero]

\* _cancel_and_unfreeze: yields [ok, o, a], ok = FALSE when a callee raises
_cancel_and_unfreeze(o, a) ==
    LET remaining_volume == o.volume - o.traded_volume
        amount == remaining_volume * o.price
        commission == Max(MulRate(amount, COMMISSION_RATE, RateDen), MIN_COMMISSION)
        transfer_fee == MulRate(amount, TRANSFER_FEE_RATE, RateDen)
        frozen_amount == amount + commission + transfer_fee
        to_unfreeze == Min(frozen_amount, a.frozen_cash)
        unf == IF o.direction = "BUY" /\ to_unfreeze > 0
               THEN unfreeze_cash(a, to_unfreeze)
               ELSE [ok |-> TRUE, a |-> a]
        can == cancel(o)
    IN  IF remaining_volume <= 0 THEN [ok |-> TRUE, o |-> o, a |-> a]
        ELSE IF ~unf.ok THEN [ok |-> FALSE, o |-> o, a |-> a]
        ELSE [ok |-> can.ok, o |-> can.o, a |-> unf.a]

RECURSIVE SettleOrders(_, _, _)
\* lines 39-41 over the orders j..Len(objs) of the list
SettleOrders(objs, a, j) ==
    IF j > Len(objs) THEN [ok |-> TRUE, objs |-> objs, a |-> a]
    ELSE IF objs[j].status \in {"SUBMITTED", "PARTIAL_FILLED"}
    THEN LET r == _cancel_and_unfreeze(objs[j], a)
         IN  IF r.ok THEN SettleOrders([objs EXCEPT ![j] = r.o], r.a, j + 1)
             ELSE [ok |-> FALSE, objs |-> [objs EXCEPT ![j] = r.o], a |-> r.a]
    ELSE SettleOrders(objs, a, j + 1)

\* process_daily_settlement(orders, positions, asset): yields [ok, objs, ps, a]
process_daily_settlement(objs, ps, a) ==
    LET r == SettleOrders(objs, a, 1)
    IN  [ok |-> r.ok, objs |-> r.objs, a |-> r.a,
         ps |-> IF r.ok THEN [t \in DOMAIN ps |-> settle_t_plus_1(ps[t])] ELSE ps]

-----------------------------------------------------------------------------
(* MockMarketGateway (infrastructure/mock/mock_market.py) *)

Timeframe == {"1m", "1d"}

\* list.sort(key = timestamp): stable insertion of the bars in list order
RECURSIVE SortByTimestamp(_)
SortByTimestamp(bars) ==
    IF bars = <<>> THEN <<>>
    ELSE LET n == Len(bars)
             sorted == SortByTimestamp(SubSeq(bars, 1, n - 1))
             x == bars[n]
             k == Cardinality({j \in 1..(n - 1) : sorted[j].timestamp <= x.timestamp})
         IN  SubSeq(sorted, 1, k) \o <<x>> \o SubSeq(sorted, k + 1, n - 1)

\* seq[start:] of Python
SliceFrom(seq, start) ==
    LET n == Len(seq)
        first == IF start < 0 THEN Max(n + start, 0) ELSE Min(start, n)
    IN  SubSeq(seq, first + 1, n)

\* MockMarketGateway(initial_data); datetime.min is time 0
NewMarket(initial_data) == [data |-> initial_data, current_time |-> 0]

set_current_time(m, dt) == [m EXCEPT !.current_time = dt]

\* get_recent_bars without the filter on the clock
get_recent_bars_unfiltered(m, symbol, timeframe, limit) ==
    IF symbol \notin DOMAIN m.data \/ timeframe \notin DOMAIN m.data[symbol]
    THEN <<>>
    ELSE SliceFrom(m.data[symbol][timeframe], -limit)

get_recent_bars(m, symbol, timeframe, limit) ==
    IF symbol \notin DOMAIN m.data \/ timeframe \notin DOMAIN m.data[symbol]
    THEN <<>>
    ELSE LET all_bars == m.data[symbol][timeframe]
             valid_bars == SelectSeq(all_bars, LAMBDA bar : bar.timestamp <= m.current_time)
         IN  SliceFrom(valid_bars, -limit)

\* add_bars: each bar is appended to the list of its timeframe, then every
\* list of the symbol is sorted by timestamp
add_bars(m, symbol, bars) ==
    IF bars = <<>> THEN m
    ELSE LET old == IF symbol \in DOMAIN m.data THEN m.data[symbol] ELSE <<>>
             tfs == DOMAIN old \cup {bars[j].timeframe : j \in DOMAIN bars}
             lists == [tf \in tfs |->
                         SortByTimestamp(
                             (IF tf \in DOMAIN old THEN old[tf] ELSE <<>>)
                             \o SelectSeq(bars, LAMBDA bar : bar.timeframe = tf))]
         IN  [m EXCEPT !.data = [sym \in DOMAIN m.data \cup {symbol} |->
                                     IF sym = symbol THEN lists ELSE m.data[sym]]]

MktCall(method, symbol, timeframe, limit, result) ==
    [method |-> method, symbol |-> symbol, timeframe |-> timeframe,
     limit |-> limit, result |-> result]

IdleMarket ==
    /\ mkt = NewMarket(<<>>)
    /\ mktCall = MktCall("init", "", "", 0, <<>>)

IdleDriver == bt = [pc |-> "idle"]

IdleApp == IdleMarket /\ IdleDriver

-----------------------------------------------------------------------------
(* SimpleRiskPolicy (domain/risk/services/simple_risk_policy.py) *)

\* SimpleRiskPolicy.check on an order of the given price and volume
check(price, volume) ==
    IF price <= 0 THEN "Reject"
    ELSE IF volume <= 0 THEN "Reject"
    ELSE "Pass"

-----------------------------------------------------------------------------
(* DualMaStrategy (domain/strategy/services/strategies/dual_ma_strategy.py) *)

RECURSIVE TotalClose(_)
\* line 103: the sum of the closes of a list of bars
TotalClose(bars_slice) ==
    IF bars_slice = <<>> THEN 0
    ELSE bars_slice[1].close + TotalClose(Tail(bars_slice))

\* _calculate_ma: the average as the fraction <<sum, period>>, <<0, 1>> for a
\* slice of another length
_calculate_ma(bars_slice, period) ==
    IF Len(bars_slice) # period THEN <<0, 1>>
    ELSE <<TotalClose(bars_slice), period>>

\* comparisons of two averages, their denominators being positive
MaLe(x, y) == x[1] * y[2] <= y[1] * x[2]
MaLt(x, y) == x[1] * y[2] < y[1] * x[2]

\* bars[-k:] and bars[-k:-1] of a list of bars
LastBars(bars, k) == SubSeq(bars, Max(Len(bars) - k + 1, 1), Len(bars))
LastBarsButOne(bars, k) == SubSeq(bars, Max(Len(bars) - k + 1, 1), Len(bars) - 1)

\* line 62 asking the averages to differ at the previous bar
is_golden_cross_strict(ma5_prev, ma10_prev, ma5_curr, ma10_curr) ==
    MaLt(ma5_prev, ma10_prev) /\ MaLt(ma10_curr, ma5_curr)

\* line 62
is_golden_cross(ma5_prev, ma10_prev, ma5_curr, ma10_curr) ==
    MaLe(ma5_prev, ma10_prev) /\ MaLt(ma10_curr, ma5_curr)

\* line 65
is_death_cross(ma5_prev, ma10_prev, ma5_curr, ma10_curr) ==
    MaLe(ma10_prev, ma5_prev) /\ MaLt(ma5_curr, ma10_curr)

\* lines 44-92: the signals of one symbol, given its bars and the positions
symbol_signals(symbol, bars, position_map) ==
    LET ma5_curr == _calculate_ma(LastBars(bars, 5), 5)
        ma10_curr == _calculate_ma(LastBars(bars, 10), 10)
        ma5_prev == _calculate_ma(LastBarsButOne(bars, 6), 5)
        ma10_prev == _calculate_ma(LastBarsButOne(bars, 11), 10)
    IN  IF Len(bars) < 11 THEN <<>>
        ELSE IF is_golden_cross(ma5_prev, ma10_prev, ma5_curr, ma10_curr)
        THEN << [symbol |-> symbol, direction |-> "BUY", target_volume |-> 100] >>
        ELSE IF is_death_cross(ma5_prev, ma10_prev, ma5_curr, ma10_curr)
        THEN IF symbol \in DOMAIN position_map
                /\ position_map[symbol].available_volume > 0
             THEN << [symbol |-> symbol, direction |-> "SELL",
                      target_volume |-> position_map[symbol].available_volume] >>
             ELSE <<>>
        ELSE <<>>

RECURSIVE generate_signals(_, _, _)
\* generate_signals: keys is the order of the keys of market_data, and
\* current_positions maps each ticker held to its position
generate_signals(keys, market_data, current_positions) ==
    IF keys = <<>> THEN <<>>
    ELSE symbol_signals(keys[1], market_data[keys[1]], current_positions)
            \o generate_signals(Tail(keys), market_data, current_positions)

-----------------------------------------------------------------------------
(* PerformanceEvaluator (domain/backtest/services/performance_evaluator.py) *)

\* a < b for two rationals
QLess(a, b) == (a.w * a.d + a.n) * b.d < (b.w * b.d + b.n) * a.d

RECURSIVE DrawdownLoop(_, _, _, _)
\* lines 58-63 from the j-th snapshot on, with the peak and the maximum so far
DrawdownLoop(snapshots, j, peak, max_drawdown) ==
    IF j > Len(snapshots) THEN max_drawdown
    ELSE LET total_asset == snapshots[j].total_asset
             peak1 == IF total_asset > peak THEN total_asset ELSE peak
             drawdown == IF peak1 > 0 THEN QDivInt(QInt(peak1 - total_asset), peak1)
                         ELSE QZero
         IN  DrawdownLoop(snapshots, j + 1, peak1,
                          IF QLess(max_drawdown, drawdown) THEN drawdown
                          ELSE max_drawdown)

\* lines 55-63 starting the peak at the first snapshot
_max_drawdown_from_first(initial_capital, snapshots) ==
    DrawdownLoop(snapshots, 1, IF snapshots = <<>> THEN 0 ELSE snapshots[1].total_asset,
                 QZero)

\* lines 55-63
_max_drawdown(initial_capital, snapshots) ==
    DrawdownLoop(snapshots, 1, initial_capital, QZero)

\* lines 66-68: [wins, sells], the win rate being wins / sells, 0 without sells
_win_rate(trades) ==
    LET sell_trades == SelectSeq(trades, LAMBDA t : t.direction = "SELL")
        wins == SelectSeq(sell_trades, LAMBDA t : QLess(QZero, t.realized_pnl))
    IN  IF sell_trades = <<>> THEN QZero
        ELSE QDivInt(QInt(Len(wins)), Len(sell_trades))

\* evaluate: the report, or raised when the division at line 46 is by zero.
\* annualized_return is kept as the power it is computed from: base ^ (365 /
\* days) - 1, written [base, days], and 0 as [base |-> QInt(1), days |-> 0].
evaluate(days, initial_capital, snapshots, trades) ==
    IF snapshots = <<>>
    THEN [raised |-> FALSE,
          initial_capital |-> initial_capital, final_capital |-> initial_capital,
          total_return |-> QZero,
          annualized_return |-> [base |-> QInt(1), days |-> 0],
          max_drawdown |-> QZero, win_rate |-> QZero,
          trade_count |-> Len(trades)]
    ELSE IF initial_capital = 0
    THEN [raised |-> TRUE]
    ELSE LET final_capital == snapshots[Len(snapshots)].total_asset
             total_return == IF initial_capital > 0
                             THEN QDivInt(QInt(final_capital - initial_capital),
                                          initial_capital)
                             ELSE QDivInt(QInt(initial_capital - final_capital),
                                          -initial_capital)
         IN  [raised |-> FALSE,
              initial_capital |-> initial_capital, final_capital |-> final_capital,
              total_return |-> total_return,
              annualized_return |->
                  IF days > 0 THEN [base |-> QAdd(QInt(1), total_return), days |-> days]
                  ELSE [base |-> QInt(1), days |-> 0],
              max_drawdown |-> _max_drawdown(initial_capital, snapshots),
              win_rate |-> _win_rate(trades),
              trade_count |-> Len(trades)]

-----------------------------------------------------------------------------
(* BacktestAppService (application/backtest_app.py) *)

\* Time is counted in days: day d stands for the clock of day d at 15:00, and
\* a daily bar of day d carries timestamp d.

\* what run_backtest reports of itself: a step of the loop, the signal it
\* was taken for (0 when none) and, for an order, its price and outcome
Event(op, k, price, result) == [op |-> op, k |-> k, price |-> price, result |-> result]

\* lines 64-71: the bars of every symbol that has any, their last close, and
\* the order in which the symbols entered market_data
fetch_bars(m, symbols) ==
    LET bars(s) == get_recent_bars(m, s, "1d", 100)
        have == {s \in {symbols[j] : j \in DOMAIN symbols} : bars(s) # <<>>}
    IN  [market_data |-> [s \in have |-> bars(s)],
         current_prices |-> [s \in have |-> bars(s)[Len(bars(s))].close],
         keys |-> SelectSeq(symbols, LAMBDA s : s \in have)]

\* line 80 taking the signals last first
next_signal_reversed(signals, k) == signals[Len(signals) - k]

\* line 80: the signal taken by the loop after k signals were taken
next_signal(signals, k) == signals[k + 1]

\* lines 81-112, the body of the loop over the signals, for the k-th signal
\* of the day: the ledger g and the Order objects objs after it, and the
\* events it adds.  outcome "raised" is an exception that leaves run_backtest.
execute_signal(g, objs, m, current_prices, market_time, k, signal) ==
    LET has_price == signal.symbol \in DOMAIN current_prices
        price == current_prices[signal.symbol]
        direction == signal.direction
        volume == IF direction = "BUY"
                  THEN (signal.target_volume \div 100) * 100
                  ELSE signal.target_volume
        i == Len(objs) + 1
        order == NewOrder(<<market_time, signal.symbol>>, signal.symbol, direction, volume)
        r == place_order(g, i, order, get_recent_bars(m, signal.symbol, "1d", 1))
        Skip == [outcome |-> "skipped", g |-> g, objs |-> objs, events |-> <<>>]
    IN  IF ~has_price THEN Skip
        ELSE IF price = 0 THEN Skip
        ELSE IF direction = "BUY" /\ volume < 100 THEN Skip
        ELSE IF ~(OrderValid(direction, volume) /\ price >= 0)
        THEN [outcome |-> "raised", g |-> g, objs |-> objs,
              events |-> <<Event("Order", k, price, "ValueError")>>]
        ELSE [outcome |-> IF r.call.result = "ok" THEN "placed" ELSE "caught",
              g |-> r.g, objs |-> Append(objs, r.o),
              events |-> <<Event("place_order", k, price, r.call.result)>>,
              call |-> r.call]

RECURSIVE MarketValue(_, _, _)
\* lines 137-141 over the tickers ts; an average cost stands in as a price
\* rounded down to the money unit
MarketValue(ps, current_prices, ts) ==
    IF ts = {} THEN 0
    ELSE LET t == CHOOSE x \in ts : TRUE
             price == IF t \in DOMAIN current_prices
                      THEN current_prices[t] ELSE ps[t].average_cost.w
         IN  ps[t].total_volume * price + MarketValue(ps, current_prices, ts \ {t})

\* _record_snapshot without the assignment to asset.total_asset
_record_snapshot_leaving_asset(a, ps, snapshots, date, current_prices) ==
    LET market_value == MarketValue(ps, current_prices, DOMAIN ps)
        total_asset == a.available_cash + a.frozen_cash + market_value
        last_total == IF snapshots = <<>> THEN total_asset
                      ELSE snapshots[Len(snapshots)].total_asset
        pnl == total_asset - last_total
        return_rate == IF last_total > 0 THEN QDivInt(QInt(pnl), last_total) ELSE QZero
    IN  [a |-> a,
         snapshots |-> Append(snapshots,
             [date |-> date, total_asset |-> total_asset,
              available_cash |-> a.available_cash, market_value |-> market_value,
              pnl |-> pnl, return_rate |-> return_rate])]

\* _record_snapshot: yields the asset and the snapshots after it
_record_snapshot(a, ps, snapshots, date, current_prices) ==
    LET market_value == MarketValue(ps, current_prices, DOMAIN ps)
        total_asset == a.available_cash + a.frozen_cash + market_value
        last_total == IF snapshots = <<>> THEN total_asset
                      ELSE snapshots[Len(snapshots)].total_asset
        pnl == total_asset - last_total
        return_rate == IF last_total > 0 THEN QDivInt(QInt(pnl), last_total) ELSE QZero
    IN  [a |-> [a EXCEPT !.total_asset = total_asset],
         snapshots |-> Append(snapshots,
             [date |-> date, total_asset |-> total_asset,
              available_cash |-> a.available_cash, market_value |-> market_value,
              pnl |-> pnl, return_rate |-> return_rate])]

\* step_after with the settlement moved behind the orders of the day
step_after_settling_late(pc, more) ==
    CASE pc = "set_current_time" -> "fetch_bars"
      [] pc = "fetch_bars" -> "generate_signals"
      [] pc = "generate_signals" -> IF more THEN "execute_signal" ELSE "daily_settlement"
      [] pc = "execute_signal" -> IF more THEN "execute_signal" ELSE "daily_settlement"
      [] pc = "daily_settlement" -> "cancel_all_open_orders"
      [] pc = "cancel_all_open_orders" -> "record_snapshot"
      [] pc = "record_snapshot" -> "set_current_time"

\* the order of the steps of one pass of the loop, lines 52-121; more says
\* that a signal is left to execute
step_after(pc, more) ==
    CASE pc = "set_current_time" -> "daily_settlement"
      [] pc = "daily_settlement" -> "fetch_bars"
      [] pc = "fetch_bars" -> "generate_signals"
      [] pc = "generate_signals" -> IF more THEN "execute_signal" ELSE "cancel_all_open_orders"
      [] pc = "execute_signal" -> IF more THEN "execute_signal" ELSE "cancel_all_open_orders"
      [] pc = "cancel_all_open_orders" -> "record_snapshot"
      [] pc = "record_snapshot" -> "set_current_time"

-----------------------------------------------------------------------------
(* TradingAppService (application/trading_app.py), its account gateway and  *)
(* its trade gateway being one MockTradeGateway: get_asset returns the      *)
(* gateway's own Asset object, which place_order mutates.                    *)

\* the signals a strategy may answer
CycleSignals ==
    {[symbol |-> t, direction |-> "BUY", target_volume |-> v] :
        t \in Tickers, v \in BuyVolumes}
    \cup {[symbol |-> t, direction |-> "SELL", target_volume |-> v] :
             t \in Tickers, v \in SellVolumes}

\* what the market gateway answers for each symbol during one cycle
CycleMarkets == [Tickers -> BarAnswers]

\* lines 46-51: the symbols with bars, and their bars
cycle_market_data(market) ==
    [s \in {t \in DOMAIN market : market[t] # NoBars} |-> market[s]]

RECURSIVE signal_loop(_, _, _, _, _, _)
\* lines 72-116: the loop over the signals from signal k on; asset is
\* g.asset, the object read at line 61.  Yields [g, objs, submitted],
\* submitted listing the calls of trade_gateway.place_order.
signal_loop(g, objs, market_data, signals, k, submitted) ==
    IF k > Len(signals) THEN [g |-> g, objs |-> objs, submitted |-> submitted]
    ELSE
        LET signal == signals[k]
            has_bars == signal.symbol \in DOMAIN market_data
            bars == market_data[signal.symbol]
            current_price == bars[Len(bars)].close
            order_direction == IF signal.direction = "BUY" THEN "BUY" ELSE "SELL"
            estimated_cost == current_price * signal.target_volume
            i == Len(objs) + 1
            order == NewOrder(i, signal.symbol, order_direction, signal.target_volume)
        IN  IF ~has_bars
            THEN signal_loop(g, objs, market_data, signals, k + 1, submitted)
            ELSE IF order_direction = "BUY" /\ g.asset.available_cash < estimated_cost
            THEN signal_loop(g, objs, market_data, signals, k + 1, submitted)
            ELSE IF ~(OrderValid(order_direction, signal.target_volume)
                        /\ current_price >= 0)
            THEN signal_loop(g, objs, market_data, signals, k + 1, submitted)
            ELSE \* the call, whose exception (if any) is caught and logged
                 LET r == place_order(g, i, order, bars)
                 IN  signal_loop(r.g, Append(objs, r.o), market_data, signals, k + 1,
                        Append(submitted,
                               [direction |-> order_direction,
                                price |-> current_price,
                                volume |-> signal.target_volume,
                                available_cash |-> g.asset.available_cash,
                                result |-> r.call.result]))

\* run_cycle for the answers market of the market gateway and the signals
\* of the strategy; yields [read, available_cash, g, objs, submitted], read
\* telling whether the asset was read (line 61) and available_cash what it
\* held then.
run_cycle(g, objs, market, signals) ==
    LET market_data == cycle_market_data(market)
        r == signal_loop(g, objs, market_data, signals, 1, <<>>)
    IN  IF DOMAIN market_data = {}
        THEN [read |-> FALSE, available_cash |-> 0, g |-> g, objs |-> objs,
              submitted |-> <<>>]
        ELSE [read |-> TRUE, available_cash |-> g.asset.available_cash,
              g |-> r.g, objs |-> r.objs, submitted |-> r.submitted]

-----------------------------------------------------------------------------
(* OrderService (application/order_service.py) *)

\* OrderResult.failure(message)
OrderResult_failure(message) ==
    [success |-> FALSE, order_id |-> <<>>, message |-> message]

\* OrderResult.success(order_id): the dataclass has slots and a field named
\* success, so the class attribute success is the slot's descriptor and not
\* the classmethod; calling it raises TypeError (ok = FALSE) and the result
\* r is never built.
OrderResult_success(order_id) ==
    [ok |-> FALSE,
     r |-> [success |-> TRUE, order_id |-> order_id, message |-> ""]]

\* OrderService.place_order on ledger g for the Order object o = pool[i] of
\* the given price, the market answering bars; yields [result, g, o,
\* gateway_calls], gateway_calls counting the calls of gateway.place_order.
service_place_order(g, i, o, price, bars) ==
    LET risk_result == check(price, o.volume)
        sub == submit(o)
        r == place_order(g, i, sub.o, bars)
        res == OrderResult_success(o.order_id)
    IN  IF risk_result # "Pass"
        THEN [result |-> OrderResult_failure("Risk check failed"),
              g |-> g, o |-> o, gateway_calls |-> 0]
        ELSE IF ~sub.ok
        THEN [result |-> OrderResult_failure("Order submission failed"),
              g |-> g, o |-> o, gateway_calls |-> 0]
        ELSE IF r.call.result # "ok"
        THEN [result |-> OrderResult_failure("Order submission failed"),
              g |-> r.g, o |-> r.o, gateway_calls |-> 1]
        ELSE IF ~res.ok
        THEN [result |-> OrderResult_failure("Order submission failed"),
              g |-> r.g, o |-> r.o, gateway_calls |-> 1]
        ELSE [result |-> res.r, g |-> r.g, o |-> r.o, gateway_calls |-> 1]

-----------------------------------------------------------------------------
(* Gateway specification: any caller of MockTradeGateway *)

NoCall == Call("init", 0, "ok", NoBars, 0, 0, 0, NoCosts, 0)

OrdCall(method, ok, before, fill_volume) ==
    [method |-> method, ok |-> ok, before |-> before, fill_volume |-> fill_volume]

PosCall(method, ok, before, volume) ==
    [method |-> method, ok |-> ok, before |-> before, volume |-> volume]

IdleOrd ==
    /\ ord = NewOrder(0, "A", "BUY", 100)
    /\ ordCall = OrdCall("init", TRUE, ord, 0)

IdlePos ==
    /\ pos = NewPosition
    /\ posCall = PosCall("init", TRUE, pos, 0)

Init ==
    /\ \E initial_capital \in InitialCapitals : asset = NewAsset(initial_capital)
    /\ positions = <<>>
    /\ trade_records = <<>>
    /\ orders = <<>>
    /\ pool = <<>>
    /\ last = NoCall
    /\ IdleOrd
    /\ IdlePos
    /\ IdleApp

\* Order objects the gateway holds in its orders map
Stored == {i \in 1..Len(pool) : \E k \in DOMAIN orders : orders[k] = i}

\* The Order objects a caller can pass: one the gateway holds, the one passed
\* last, or a new one (which takes the place of an object never accepted).
Candidates ==
    {<<i, pool[i]>> : i \in 1..Len(pool)}
    \cup {<<Cardinality(Stored) + 1, NewOrder(Cardinality(Stored) + 1, t, "BUY", v)>> :
             t \in {x \in Tickers : Cardinality(Stored) < MaxOrders}, v \in BuyVolumes}
    \cup {<<Cardinality(Stored) + 1, NewOrder(Cardinality(Stored) + 1, t, "SELL", v)>> :
             t \in {x \in Tickers : Cardinality(Stored) < MaxOrders}, v \in SellVolumes}

\* A place_order call, f being the matching routine
PlaceOrderWith(f(_, _, _, _)) ==
    \E c \in Candidates, bars \in BarAnswers :
        LET i == c[1]
            objs == [j \in 1..Max(i, Cardinality(Stored)) |->
                        IF j = i THEN c[2] ELSE pool[j]]
            r == f(Ledger(asset, positions, trade_records, orders), i, c[2], bars)
        IN  /\ OrderValid(c[2].direction, c[2].volume)
            /\ asset' = r.g.asset
            /\ positions' = r.g.positions
            /\ trade_records' = r.g.trade_records
            /\ orders' = r.g.orders
            /\ pool' = [objs EXCEPT ![i] = r.o]
            /\ last' = r.call
            /\ UNCHANGED <<ordVars, posVars, appVars>>

\* place_order entering the order in the orders map before the position check
PlaceOrder_registers_first ==
    PlaceOrderWith(LAMBDA g, i, o, bars :
        LET r == place_order(g, i, o, bars)
        IN  IF r.call.result = "insufficient_position"
            THEN [r EXCEPT !.g.orders =
                     [k \in DOMAIN g.orders \cup {o.order_id} |->
                         IF k = o.order_id THEN i ELSE g.orders[k]]]
            ELSE r)

PlaceOrder == PlaceOrderWith(place_order)

CancelAllOpenOrders ==
    /\ pool' = cancel_all_open_orders(orders, pool)
    /\ last' = [NoCall EXCEPT !.op = "cancel_all_open_orders"]
    /\ UNCHANGED <<asset, positions, trade_records, orders, ordVars, posVars, appVars>>

DailySettlement ==
    /\ pool' = cancel_all_open_orders(orders, pool)
    /\ positions' = [t \in DOMAIN positions |-> settle_t_plus_1(positions[t])]
    /\ last' = [NoCall EXCEPT !.op = "daily_settlement"]
    /\ UNCHANGED <<asset, trade_records, orders, ordVars, posVars, appVars>>

Next == PlaceOrder \/ CancelAllOpenOrders \/ DailySettlement

Spec == Init /\ [][Next]_vars

-----------------------------------------------------------------------------
(* Gateway specification with bars of either sign *)

SignedBarAnswers == {NoBars} \cup {<<b>> : b \in SignedBars}

PlaceOrderSigned ==
    \E c \in Candidates, bars \in SignedBarAnswers :
        LET i == c[1]
            objs == [j \in 1..Max(i, Cardinality(Stored)) |->
                        IF j = i THEN c[2] ELSE pool[j]]
            r == place_order(Ledger(asset, positions, trade_records, orders),
                             i, c[2], bars)
        IN  /\ OrderValid(c[2].direction, c[2].volume)
            /\ asset' = r.g.asset
            /\ positions' = r.g.positions
            /\ trade_records' = r.g.trade_records
            /\ orders' = r.g.orders
            /\ pool' = [objs EXCEPT ![i] = r.o]
            /\ last' = r.call
            /\ UNCHANGED <<ordVars, posVars, appVars>>

NextSigned == PlaceOrderSigned \/ CancelAllOpenOrders \/ DailySettlement

SpecSigned == Init /\ [][NextSigned]_vars

-----------------------------------------------------------------------------
(* Order specification: any caller of one Order entity *)

FillPrices == {1, 2}

IdleGateway ==
    /\ asset = NewAsset(0)
    /\ positions = <<>>
    /\ trade_records = <<>>
    /\ orders = <<>>
    /\ pool = <<>>
    /\ last = NoCall

InitOrder ==
    /\ IdleGateway
    /\ IdleApp
    /\ IdlePos
    /\ \E volume \in 1..MaxOrdVolume : ord = NewOrder(0, "A", "SELL", volume)
    /\ ordCall = OrdCall("init", TRUE, ord, 0)

OrdSubmit ==
    /\ ord' = submit(ord).o
    /\ ordCall' = OrdCall("submit", submit(ord).ok, ord, 0)
    /\ UNCHANGED <<gwVars, posVars, appVars>>

OrdOnFill ==
    \E fill_volume \in 0..MaxOrdVolume, fill_price \in FillPrices :
        /\ ord' = on_fill(ord, fill_volume, fill_price).o
        /\ ordCall' = OrdCall("on_fill", on_fill(ord, fill_volume, fill_price).ok,
                              ord, fill_volume)
        /\ UNCHANGED <<gwVars, posVars, appVars>>

OrdCancel ==
    /\ ord' = cancel(ord).o
    /\ ordCall' = OrdCall("cancel", cancel(ord).ok, ord, 0)
    /\ UNCHANGED <<gwVars, posVars, appVars>>

OrdReject ==
    /\ ord' = reject(ord).o
    /\ ordCall' = OrdCall("reject", reject(ord).ok, ord, 0)
    /\ UNCHANGED <<gwVars, posVars, appVars>>

NextOrder == OrdSubmit \/ OrdOnFill \/ OrdCancel \/ OrdReject

SpecOrder == InitOrder /\ [][NextOrder]_vars

-----------------------------------------------------------------------------
(* Fill specification: one Order and the fills it has seen *)

\* ordCall here also carries the price of the fill and what the caller knows
\* of the fills that succeeded so far: the sum of their volume * price.
FillCall(method, ok, before, fill_volume, fill_price, filled_value) ==
    [method |-> method, ok |-> ok, before |-> before, fill_volume |-> fill_volume,
     fill_price |-> fill_price, filled_value |-> filled_value]

InitFill ==
    /\ IdleGateway
    /\ IdleApp
    /\ IdlePos
    /\ \E volume \in 1..MaxOrdVolume : ord = NewOrder(0, "A", "SELL", volume)
    /\ ordCall = FillCall("init", TRUE, ord, 0, 0, 0)

FlSubmit ==
    /\ ord' = submit(ord).o
    /\ ordCall' = FillCall("submit", submit(ord).ok, ord, 0, 0, ordCall.filled_value)
    /\ UNCHANGED <<gwVars, posVars, appVars>>

FlOnFill ==
    \E fill_volume \in 0..MaxOrdVolume, fill_price \in FillPrices :
        \E r \in {on_fill(ord, fill_volume, fill_price)} :
            /\ ord' = r.o
            /\ ordCall' = FillCall("on_fill", r.ok, ord, fill_volume, fill_price,
                                   IF r.ok /\ fill_volume > 0
                                   THEN ordCall.filled_value + fill_volume * fill_price
                                   ELSE ordCall.filled_value)
            /\ UNCHANGED <<gwVars, posVars, appVars>>

FlCancel ==
    /\ ord' = cancel(ord).o
    /\ ordCall' = FillCall("cancel", cancel(ord).ok, ord, 0, 0, ordCall.filled_value)
    /\ UNCHANGED <<gwVars, posVars, appVars>>

NextFill == FlSubmit \/ FlOnFill \/ FlCancel

SpecFill == InitFill /\ [][NextFill]_vars

-----------------------------------------------------------------------------
(* Risk specification: one Order, a caller that assigns its price and    *)
(* volume as it likes, and SimpleRiskPolicy.check on it.                  *)

OrderType == {"LIMIT", "MARKET"}

RiskPrices == -1..2

RiskVolumes == -1..MaxOrdVolume

\* an Order as constructed, with its type and price
TypedOrder(direction, type, price, volume) ==
    [order_id |-> 0, ticker |-> "A", direction |-> direction, type |-> type,
     price |-> price, volume |-> volume, status |-> "CREATED",
     traded_volume |-> 0, traded_price |-> QZero]

RiskCall(method, result, before) ==
    [method |-> method, result |-> result, before |-> before]

\* the constructor accepts volume > 0 and price >= 0
InitRisk ==
    /\ IdleGateway
    /\ IdleApp
    /\ IdlePos
    /\ \E type \in OrderType, price \in RiskPrices, volume \in RiskVolumes :
          /\ volume > 0
          /\ price >= 0
          /\ ord = TypedOrder("SELL", type, price, volume)
    /\ ordCall = RiskCall("init", "", ord)

\* order.price = ..., order.volume = ... by the holder of the object
RkAssign ==
    /\ \E price \in RiskPrices, volume \in RiskVolumes :
          ord' = [ord EXCEPT !.price = price, !.volume = volume]
    /\ ordCall' = RiskCall("assign", "", ord)
    /\ UNCHANGED <<gwVars, posVars, appVars>>

RkCheck ==
    /\ ord' = ord
    /\ ordCall' = RiskCall("check", check(ord.price, ord.volume), ord)
    /\ UNCHANGED <<gwVars, posVars, appVars>>

NextRisk == RkAssign \/ RkCheck

SpecRisk == InitRisk /\ [][NextRisk]_vars

-----------------------------------------------------------------------------
(* Strategy specification: a caller that extends the bars of symbol A   *)
(* one by one and asks DualMaStrategy for its signals; bt holds the      *)
(* market data and the last answer, positions the positions handed in.   *)

\* the order of the keys of market_data
StrategyKeys == <<"A", "B">>

Closes == {1, 2}

\* the bars of a symbol with the given closes, one a day
BarsOf(symbol, closes) ==
    [j \in 1..Len(closes) |->
        [symbol |-> symbol, timeframe |-> "1d", timestamp |-> j,
         close |-> closes[j], volume |-> 1000]]

\* the histories of symbol B: too short, flat then up, flat then down
OtherHistories ==
    { [j \in 1..5 |-> 1],
      [j \in 1..11 |-> IF j = 11 THEN 2 ELSE 1],
      [j \in 1..11 |-> IF j = 11 THEN 1 ELSE 2] }

\* a position of the given volumes
HeldPosition(total_volume, available_volume) ==
    [NewPosition EXCEPT !.total_volume = total_volume,
                        !.available_volume = available_volume,
                        !.average_cost = QInt(1)]

\* the positions a caller may hand in
PositionLists ==
    { <<>>,
      [t \in {"A"} |-> HeldPosition(100, 0)],
      [t \in {"A"} |-> HeldPosition(300, 200)],
      [t \in {"B"} |-> HeldPosition(300, 300)],
      [t \in {"A", "B"} |-> IF t = "A" THEN HeldPosition(300, 200)
                            ELSE HeldPosition(300, 300)] }

InitStrategy ==
    /\ asset = NewAsset(0)
    /\ trade_records = <<>>
    /\ orders = <<>>
    /\ pool = <<>>
    /\ last = NoCall
    /\ IdleOrd
    /\ IdlePos
    /\ IdleMarket
    /\ positions \in PositionLists
    /\ \E h \in OtherHistories :
          bt = [pc |-> "strategy",
                market_data |-> [s \in {"A", "B"} |->
                                    IF s = "A" THEN <<>> ELSE BarsOf("B", h)],
                called |-> FALSE, signals |-> <<>>]

\* one more bar of symbol A arrives
SgAddBar ==
    /\ Len(bt.market_data["A"]) < MaxStratBars
    /\ \E close \in Closes :
          bt' = [bt EXCEPT !.market_data["A"] =
                              Append(@, [symbol |-> "A", timeframe |-> "1d",
                                         timestamp |-> Len(@) + 1,
                                         close |-> close, volume |-> 1000]),
                           !.called = FALSE, !.signals = <<>>]
    /\ UNCHANGED <<gwVars, ordVars, posVars, mktVars>>

\* strategy.generate_signals(market_data, positions)
SgGenerateSignals ==
    /\ bt' = [bt EXCEPT !.called = TRUE,
                        !.signals = generate_signals(StrategyKeys, bt.market_data, positions)]
    /\ UNCHANGED <<gwVars, ordVars, posVars, mktVars>>

NextStrategy == SgAddBar \/ SgGenerateSignals

SpecStrategy == InitStrategy /\ [][NextStrategy]_vars

-----------------------------------------------------------------------------
(* Evaluator specification: a caller that collects snapshots and trades  *)
(* and has PerformanceEvaluator.evaluate make the report; bt holds the   *)
(* arguments and the report, trade_records the trades.                   *)

\* the trades a caller may hand in: a BUY, a winning and a losing SELL
EvalTrades ==
    { [symbol |-> "A", direction |-> "BUY", price |-> 1, volume |-> 100,
       commission |-> 0, realized_pnl |-> QZero],
      [symbol |-> "A", direction |-> "SELL", price |-> 2, volume |-> 100,
       commission |-> 0, realized_pnl |-> QInt(100)],
      [symbol |-> "A", direction |-> "SELL", price |-> 1, volume |-> 100,
       commission |-> 1, realized_pnl |-> QInt(-101)] }

NoReport == [raised |-> FALSE]

InitEvaluate ==
    /\ asset = NewAsset(0)
    /\ positions = <<>>
    /\ trade_records = <<>>
    /\ orders = <<>>
    /\ pool = <<>>
    /\ last = NoCall
    /\ IdleOrd
    /\ IdlePos
    /\ IdleMarket
    /\ \E initial_capital \in 0..MaxEvalAsset - 1, days \in 0..1 :
          bt = [pc |-> "evaluate", days |-> days, initial_capital |-> initial_capital,
                snapshots |-> <<>>, called |-> FALSE, report |-> NoReport]

EvAddSnapshot ==
    /\ Len(bt.snapshots) < MaxSnapshots
    /\ \E total_asset \in 0..MaxEvalAsset :
          bt' = [bt EXCEPT !.snapshots = Append(@, [date |-> Len(@) + 1,
                                                    total_asset |-> total_asset]),
                           !.called = FALSE, !.report = NoReport]
    /\ UNCHANGED <<gwVars, ordVars, posVars, mktVars>>

EvAddTrade ==
    /\ Len(trade_records) < MaxTrades
    /\ \E t \in EvalTrades : trade_records' = Append(trade_records, t)
    /\ bt' = [bt EXCEPT !.called = FALSE, !.report = NoReport]
    /\ UNCHANGED <<asset, positions, orders, pool, last, ordVars, posVars, mktVars>>

EvEvaluate ==
    /\ bt' = [bt EXCEPT !.called = TRUE,
                        !.report = evaluate(bt.days, bt.initial_capital, bt.snapshots,
                                            trade_records)]
    /\ UNCHANGED <<gwVars, ordVars, posVars, mktVars>>

NextEvaluate == EvAddSnapshot \/ EvAddTrade \/ EvEvaluate

SpecEvaluate == InitEvaluate /\ [][NextEvaluate]_vars

-----------------------------------------------------------------------------
(* Position specification: any caller of one Position entity *)

PosPrices == {-1, 0, 1, 2}

InitPosition ==
    /\ IdleGateway
    /\ IdleApp
    /\ IdleOrd
    /\ pos = NewPosition
    /\ posCall = PosCall("init", TRUE, pos, 0)

PosOnBuyFilled ==
    \E volume \in 0..MaxPosVolume, price \in PosPrices :
        /\ pos.total_volume + volume <= MaxPosVolume
        /\ on_buy_filled(pos, volume, price).p.average_cost.d <= MaxCostDen
        /\ pos' = on_buy_filled(pos, volume, price).p
        /\ posCall' = PosCall("on_buy_filled", on_buy_filled(pos, volume, price).ok,
                              pos, volume)
        /\ UNCHANGED <<gwVars, ordVars, appVars>>

PosOnSellFilled ==
    \E volume \in 0..MaxPosVolume, price \in PosPrices :
        /\ pos' = on_sell_filled(pos, volume, price).p
        /\ posCall' = PosCall("on_sell_filled", on_sell_filled(pos, volume, price).ok,
                              pos, volume)
        /\ UNCHANGED <<gwVars, ordVars, appVars>>

PosSettle ==
    /\ pos' = settle_t_plus_1(pos)
    /\ posCall' = PosCall("settle_t_plus_1", TRUE, pos, 0)
    /\ UNCHANGED <<gwVars, ordVars, appVars>>

NextPosition == PosOnBuyFilled \/ PosOnSellFilled \/ PosSettle

SpecPosition == InitPosition /\ [][NextPosition]_vars

-----------------------------------------------------------------------------
(* T+1 specification: a run uses either the gateway or one Position      *)
(* entity of its own; the two share nothing.                              *)

NextT1 ==
    \/ posCall.method = "init" /\ Next
    \/ last.op = "init" /\ NextPosition

SpecT1 == Init /\ [][NextT1]_vars

-----------------------------------------------------------------------------
(* Cost-basis specification: one Position and the BUYs it has seen *)

\* posCall here also carries what the caller knows of the BUYs made since the
\* position was last empty: their volume, their cost and whether a sale
\* took place among them.
CostCall(method, ok, before, volume, bought_volume, bought_cost, sold) ==
    [method |-> method, ok |-> ok, before |-> before, volume |-> volume,
     bought_volume |-> bought_volume, bought_cost |-> bought_cost, sold |-> sold]

InitCost ==
    /\ IdleGateway
    /\ IdleApp
    /\ IdleOrd
    /\ pos = NewPosition
    /\ posCall = CostCall("init", TRUE, pos, 0, 0, 0, FALSE)

CostOnBuyFilled ==
    \E volume \in 0..MaxPosVolume, price \in PosPrices :
        LET r == on_buy_filled(pos, volume, price)
        IN  /\ pos.total_volume + volume <= MaxPosVolume
            /\ posCall.bought_volume + volume <= MaxBought
            /\ pos' = r.p
            /\ posCall' =
                 IF r.ok
                 THEN CostCall("on_buy_filled", TRUE, pos, volume,
                               posCall.bought_volume + volume,
                               posCall.bought_cost + volume * price, posCall.sold)
                 ELSE CostCall("on_buy_filled", FALSE, pos, volume,
                               posCall.bought_volume, posCall.bought_cost, posCall.sold)
            /\ UNCHANGED <<gwVars, ordVars, appVars>>

CostOnSellFilled ==
    \E volume \in 0..MaxPosVolume, price \in PosPrices :
        LET r == on_sell_filled(pos, volume, price)
        IN  /\ pos' = r.p
            /\ posCall' =
                 IF r.ok /\ r.p.total_volume = 0
                 THEN CostCall("on_sell_filled", TRUE, pos, volume, 0, 0, FALSE)
                 ELSE CostCall("on_sell_filled", r.ok, pos, volume,
                               posCall.bought_volume, posCall.bought_cost,
                               posCall.sold \/ r.ok)
            /\ UNCHANGED <<gwVars, ordVars, appVars>>

CostSettle ==
    /\ pos' = settle_t_plus_1(pos)
    /\ posCall' = CostCall("settle_t_plus_1", TRUE, pos, 0, posCall.bought_volume,
                           posCall.bought_cost, posCall.sold)
    /\ UNCHANGED <<gwVars, ordVars, appVars>>

NextCost == CostOnBuyFilled \/ CostOnSellFilled \/ CostSettle

SpecCost == InitCost /\ [][NextCost]_vars

-----------------------------------------------------------------------------
(* Market specification: any caller of MockMarketGateway *)

\* the bars a loader can hand to add_bars for a symbol
MarketBars(symbol) ==
    [symbol : {symbol}, timeframe : Timeframe, timestamp : 1..MaxTime,
     close : {Scale}, volume : {1000}]

BarCount(m) ==
    LET keys == {<<sym, tf>> \in (DOMAIN m.data) \X Timeframe : tf \in DOMAIN m.data[sym]}
        RECURSIVE Sum(_)
        Sum(ks) == IF ks = {} THEN 0
                   ELSE LET k == CHOOSE x \in ks : TRUE
                        IN  Len(m.data[k[1]][k[2]]) + Sum(ks \ {k})
    IN  Sum(keys)

InitMarket ==
    /\ IdleGateway
    /\ IdleOrd
    /\ IdlePos
    /\ IdleDriver
    /\ IdleMarket

MktSetCurrentTime ==
    \E dt \in 0..MaxTime :
        /\ mkt' = set_current_time(mkt, dt)
        /\ mktCall' = MktCall("set_current_time", "", "", 0, <<>>)
        /\ UNCHANGED <<gwVars, ordVars, posVars, bt>>

MktAddBars ==
    \E symbol \in Tickers :
        \E bars \in {<<>>} \cup {<<b>> : b \in MarketBars(symbol)}
                    \cup {<<b, c>> : b \in MarketBars(symbol), c \in MarketBars(symbol)} :
            /\ BarCount(mkt) + Len(bars) <= MaxBars
            /\ mkt' = add_bars(mkt, symbol, bars)
            /\ mktCall' = MktCall("add_bars", symbol, "", 0, bars)
            /\ UNCHANGED <<gwVars, ordVars, posVars, bt>>

MktGetRecentBars ==
    \E symbol \in Tickers, timeframe \in Timeframe, limit \in 0..MaxLimit :
        /\ mktCall' = MktCall("get_recent_bars", symbol, timeframe, limit,
                              get_recent_bars(mkt, symbol, timeframe, limit))
        /\ UNCHANGED <<gwVars, ordVars, posVars, mkt, bt>>

NextMarket == MktSetCurrentTime \/ MktAddBars \/ MktGetRecentBars

SpecMarket == InitMarket /\ [][NextMarket]_vars

-----------------------------------------------------------------------------
(* Backtest specification: one run of run_backtest over a loaded market *)

\* the universe passed to run_backtest
Symbols == <<"A", "B">>

\* the daily bars a market may hold for a symbol on a day
DayBars(symbol, day) ==
    { [symbol |-> symbol, timeframe |-> "1d", timestamp |-> day,
       close |-> b.close, volume |-> b.volume] :
         b \in IF symbol = "A" THEN SignedBars \cup {[close |-> 0, volume |-> 1000]}
               ELSE {[close |-> 150 * Scale, volume |-> 2000]} }

NoBar == [symbol |-> "", timeframe |-> "1d", timestamp |-> 0, close |-> 0, volume |-> 0]

\* the bars of a symbol over the days of an interval, at most one a day,
\* oldest first
History(symbol, days) ==
    LET first == CHOOSE d \in days : \A e \in days : d <= e
    IN  { SelectSeq([j \in 1..Cardinality(days) |-> f[first + j - 1]],
                    LAMBDA b : b # NoBar) :
            f \in { g \in [days -> UNION {DayBars(symbol, d) : d \in days} \cup {NoBar}] :
                      \A d \in days : g[d] = NoBar \/ g[d].timestamp = d } }

\* the signals a strategy may return
Signals == { [symbol |-> "A", direction |-> "BUY",  target_volume |-> 250],
             [symbol |-> "A", direction |-> "BUY",  target_volume |-> 50],
             [symbol |-> "A", direction |-> "SELL", target_volume |-> 100],
             [symbol |-> "B", direction |-> "BUY",  target_volume |-> 100] }

SignalLists == UNION {[1..n -> Signals] : n \in 0..MaxSignals}

\* MockMarketGateway().load_bars(...), MockTradeGateway(market, capital) and
\* the entry of run_backtest(Symbols, 1, end_date), lines 49-50
InitBacktest ==
    /\ \E initial_capital \in InitialCapitals : asset = NewAsset(initial_capital)
    /\ positions = <<>>
    /\ trade_records = <<>>
    /\ orders = <<>>
    /\ pool = <<>>
    /\ last = NoCall
    /\ IdleOrd
    /\ IdlePos
    /\ \E ha \in History("A", 1..MaxDate), hb \in History("B", 1..MaxDate) :
          mkt = add_bars(add_bars(NewMarket(<<>>), "A", ha), "B", hb)
    /\ mktCall = MktCall("init", "", "", 0, <<>>)
    /\ \E end_date \in 1..MaxDate :
          bt = [pc |-> "set_current_time", start_date |-> 1, end_date |-> end_date,
                current_date |-> 1, initial_capital |-> asset.total_asset,
                market_data |-> <<>>, current_prices |-> <<>>, keys |-> <<>>,
                signals |-> <<>>, k |-> 0, emitted |-> 0,
                log |-> <<>>, snapshots |-> <<>>]

Running(pc) == bt.pc = pc /\ bt.current_date <= bt.end_date

Log(op) == Append(bt.log, Event(op, 0, 0, "ok"))

\* line 56
BtSetCurrentTime ==
    /\ Running("set_current_time")
    /\ mkt' = set_current_time(mkt, bt.current_date)
    /\ bt' = [bt EXCEPT !.pc = step_after(bt.pc, FALSE),
                        !.log = <<Event("set_current_time", 0, 0, "ok")>>]
    /\ UNCHANGED <<gwVars, ordVars, posVars, mktCall>>

\* line 61
BtDailySettlement ==
    /\ Running("daily_settlement")
    /\ pool' = cancel_all_open_orders(orders, pool)
    /\ positions' = [t \in DOMAIN positions |-> settle_t_plus_1(positions[t])]
    /\ last' = [NoCall EXCEPT !.op = "daily_settlement"]
    /\ bt' = [bt EXCEPT !.pc = step_after(bt.pc, FALSE), !.log = Log("daily_settlement")]
    /\ UNCHANGED <<asset, trade_records, orders, ordVars, posVars, mktVars>>

\* lines 64-74
BtFetchBars ==
    /\ Running("fetch_bars")
    /\ LET f == fetch_bars(mkt, Symbols)
       IN  bt' = [bt EXCEPT !.pc = step_after(bt.pc, FALSE), !.log = Log("fetch_bars"),
                            !.market_data = f.market_data,
                            !.current_prices = f.current_prices,
                            !.keys = f.keys]
    /\ UNCHANGED <<gwVars, ordVars, posVars, mktVars>>

\* line 77: the strategy answers with any list of signals
BtGenerateSignals ==
    /\ Running("generate_signals")
    /\ \E signals \in SignalLists :
          /\ bt.emitted + Len(signals) <= MaxEmitted
          /\ bt' = [bt EXCEPT !.pc = step_after(bt.pc, signals # <<>>),
                              !.log = Log("generate_signals"),
                              !.signals = signals, !.k = 0,
                              !.emitted = bt.emitted + Len(signals)]
    /\ UNCHANGED <<gwVars, ordVars, posVars, mktVars>>

\* lines 80-112 for the next signal
BtExecuteSignal ==
    /\ Running("execute_signal")
    /\ \E k \in {bt.k + 1} :
       \E r \in {execute_signal(Ledger(asset, positions, trade_records, orders), pool,
                                mkt, bt.current_prices, bt.current_date, k,
                                next_signal(bt.signals, bt.k))} :
           /\ asset' = r.g.asset
           /\ positions' = r.g.positions
           /\ trade_records' = r.g.trade_records
           /\ orders' = r.g.orders
           /\ pool' = r.objs
           /\ last' = IF r.outcome \in {"placed", "caught"} THEN r.call ELSE last
           /\ bt' = [bt EXCEPT !.pc = IF r.outcome = "raised" THEN "raised"
                                      ELSE step_after(bt.pc, k < Len(bt.signals)),
                               !.k = k, !.log = bt.log \o r.events]
    /\ UNCHANGED <<ordVars, posVars, mktVars>>

\* line 115
BtCancelAllOpenOrders ==
    /\ Running("cancel_all_open_orders")
    /\ pool' = cancel_all_open_orders(orders, pool)
    /\ last' = [NoCall EXCEPT !.op = "cancel_all_open_orders"]
    /\ bt' = [bt EXCEPT !.pc = step_after(bt.pc, FALSE),
                        !.log = Log("cancel_all_open_orders")]
    /\ UNCHANGED <<asset, positions, trade_records, orders, ordVars, posVars, mktVars>>

\* lines 118-121
BtRecordSnapshot ==
    /\ Running("record_snapshot")
    /\ LET r == _record_snapshot(asset, positions, bt.snapshots, bt.current_date,
                                 bt.current_prices)
       IN  /\ asset' = r.a
           /\ bt' = [bt EXCEPT !.pc = step_after(bt.pc, FALSE),
                               !.log = Log("record_snapshot"),
                               !.snapshots = r.snapshots,
                               !.current_date = bt.current_date + 1]
    /\ UNCHANGED <<positions, trade_records, orders, pool, last, ordVars, posVars, mktVars>>

\* lines 52 and 124: the range is exhausted and the report is made
BtReturn ==
    /\ bt.pc = "set_current_time"
    /\ bt.current_date > bt.end_date
    /\ bt' = [bt EXCEPT !.pc = "done"]
    /\ UNCHANGED <<gwVars, ordVars, posVars, mktVars>>

NextBacktest ==
    \/ BtSetCurrentTime
    \/ BtDailySettlement
    \/ BtFetchBars
    \/ BtGenerateSignals
    \/ BtExecuteSignal
    \/ BtCancelAllOpenOrders
    \/ BtRecordSnapshot
    \/ BtReturn

SpecBacktest == InitBacktest /\ [][NextBacktest]_vars

-----------------------------------------------------------------------------
(* Funded specification: the driver on an account that can pay for two   *)
(* orders.                                                                *)

\* MockTradeGateway(market, twice the capital of InitialCapitals)
InitFunded ==
    /\ \E initial_capital \in InitialCapitals : asset = NewAsset(2 * initial_capital)
    /\ positions = <<>>
    /\ trade_records = <<>>
    /\ orders = <<>>
    /\ pool = <<>>
    /\ last = NoCall
    /\ IdleOrd
    /\ IdlePos
    /\ \E ha \in History("A", 1..MaxDate), hb \in History("B", 1..MaxDate) :
          mkt = add_bars(add_bars(NewMarket(<<>>), "A", ha), "B", hb)
    /\ mktCall = MktCall("init", "", "", 0, <<>>)
    /\ \E end_date \in 1..MaxDate :
          bt = [pc |-> "set_current_time", start_date |-> 1, end_date |-> end_date,
                current_date |-> 1, initial_capital |-> asset.total_asset,
                market_data |-> <<>>, current_prices |-> <<>>, keys |-> <<>>,
                signals |-> <<>>, k |-> 0, emitted |-> 0,
                log |-> <<>>, snapshots |-> <<>>]

SpecFunded == InitFunded /\ [][NextBacktest]_vars

-----------------------------------------------------------------------------
(* Cycle specification: cycles of a TradingAppService on a MockTradeGateway, *)
(* and daily settlements between them.                                        *)

InitCycle ==
    /\ \E initial_capital \in InitialCapitals : asset = NewAsset(initial_capital)
    /\ positions = <<>>
    /\ trade_records = <<>>
    /\ orders = <<>>
    /\ pool = <<>>
    /\ last = NoCall
    /\ IdleOrd
    /\ IdlePos
    /\ IdleMarket
    /\ bt = [pc |-> "run_cycle", read |-> FALSE, available_cash |-> 0,
             submitted |-> <<>>]

RunCycle ==
    \E market \in CycleMarkets, n \in 0..MaxCycleSignals :
        \E signals \in [1..n -> CycleSignals] :
            \E r \in {run_cycle(Ledger(asset, positions, trade_records, orders),
                                pool, market, signals)} :
                /\ Len(pool) + n <= MaxCycleOrders
                /\ asset' = r.g.asset
                /\ positions' = r.g.positions
                /\ trade_records' = r.g.trade_records
                /\ orders' = r.g.orders
                /\ pool' = r.objs
                /\ last' = [NoCall EXCEPT !.op = "run_cycle"]
                /\ bt' = [pc |-> "run_cycle", read |-> r.read,
                          available_cash |-> r.available_cash,
                          submitted |-> r.submitted]
                /\ UNCHANGED <<ordVars, posVars, mkt, mktCall>>

NextCycle == RunCycle \/ DailySettlement

SpecCycle == InitCycle /\ [][NextCycle]_vars

-----------------------------------------------------------------------------
(* Service specification: an OrderService with SimpleRiskPolicy on a        *)
(* MockTradeGateway, settled daily; bt holds the last call of the service.  *)

\* the prices of the orders handed to the service, in units
ServicePrices == {0, 150 * Scale}

InitService ==
    /\ \E initial_capital \in InitialCapitals : asset = NewAsset(initial_capital)
    /\ positions = <<>>
    /\ trade_records = <<>>
    /\ orders = <<>>
    /\ pool = <<>>
    /\ last = NoCall
    /\ IdleOrd
    /\ IdlePos
    /\ IdleMarket
    /\ bt = [pc |-> "place_order", idx |-> 0, before |-> NewOrder(0, "A", "BUY", 100),
             price |-> 0, bars |-> NoBars, gateway_calls |-> 0,
             result |-> OrderResult_failure("")]

SvPlaceOrder ==
    \E c \in Candidates, price \in ServicePrices, bars \in BarAnswers :
        \E r \in {service_place_order(Ledger(asset, positions, trade_records, orders),
                                      c[1], c[2], price, bars)} :
            /\ OrderValid(c[2].direction, c[2].volume)
            /\ asset' = r.g.asset
            /\ positions' = r.g.positions
            /\ trade_records' = r.g.trade_records
            /\ orders' = r.g.orders
            /\ pool' = [j \in 1..Max(c[1], Cardinality(Stored)) |->
                           IF j = c[1] THEN r.o ELSE pool[j]]
            /\ last' = [NoCall EXCEPT !.op = "OrderService.place_order"]
            /\ bt' = [pc |-> "place_order", idx |-> c[1], before |-> c[2],
                      price |-> price, bars |-> bars,
                      gateway_calls |-> r.gateway_calls, result |-> r.result]
            /\ UNCHANGED <<ordVars, posVars, mkt, mktCall>>

NextService == SvPlaceOrder \/ DailySettlement

SpecService == InitService /\ [][NextService]_vars

-----------------------------------------------------------------------------
(* Snapshot specification: the driver, and a caller that has             *)
(* _record_snapshot called a second time for the clock and the prices    *)
(* of the snapshot just taken, before anything else happens.              *)

\* lines 132-164 called again with the arguments of the call at line 118
BtRecordSnapshotAgain ==
    /\ bt.pc = "set_current_time"
    /\ bt.log # <<>>
    /\ bt.log[Len(bt.log)].op = "record_snapshot"
    /\ \E r \in {_record_snapshot(asset, positions, bt.snapshots,
                                   bt.snapshots[Len(bt.snapshots)].date,
                                   bt.current_prices)} :
          /\ asset' = r.a
          /\ bt' = [bt EXCEPT !.log = Log("record_snapshot_again"),
                              !.snapshots = r.snapshots]
    /\ UNCHANGED <<positions, trade_records, orders, pool, last, ordVars, posVars, mktVars>>

NextSnapshot ==
    \/ NextBacktest
    \/ BtRecordSnapshotAgain

SpecSnapshot == InitBacktest /\ [][NextSnapshot]_vars

-----------------------------------------------------------------------------
(* Settlement specification: a gateway whose Order objects and Asset are     *)
(* also held by its caller, settled by the gateway or by the service         *)

\* the orders a caller places, with their limit price
SettleCandidates ==
    {<<i, pool[i]>> : i \in 1..Len(pool)}
    \cup {<<Cardinality(Stored) + 1,
            PricedOrder(Cardinality(Stored) + 1, "A", d, 200, 150 * Scale)>> :
             d \in {x \in {"BUY", "SELL"} : Cardinality(Stored) < MaxOrders}}

StPlaceOrder ==
    \E c \in SettleCandidates, bars \in SignedBarAnswers :
    \E r \in {place_order(Ledger(asset, positions, trade_records, orders),
                          c[1], c[2], bars)} :
        LET i == c[1]
            objs == [j \in 1..Max(i, Cardinality(Stored)) |->
                        IF j = i THEN c[2] ELSE pool[j]]
        IN  /\ asset' = r.g.asset
            /\ positions' = r.g.positions
            /\ trade_records' = r.g.trade_records
            /\ orders' = r.g.orders
            /\ pool' = [objs EXCEPT ![i] = r.o]
            /\ last' = r.call
            /\ UNCHANGED <<ordVars, posVars, appVars>>

\* the holder of an Order the gateway stores reports a fill of 100 shares
StOnFill ==
    \E i \in Stored :
    \E r \in {on_fill(pool[i], 100, 150 * Scale)} :
        /\ r.ok
        /\ pool' = [pool EXCEPT ![i] = r.o]
        /\ last' = [NoCall EXCEPT !.op = "on_fill", !.idx = i]
        /\ UNCHANGED <<asset, positions, trade_records, orders, ordVars, posVars, appVars>>

\* the holder of get_asset() freezes the cash of an open BUY of 100 shares
StFreezeCash ==
    \E r \in {freeze_cash(asset, 15000 * Scale)} :
        /\ r.ok
        /\ asset' = r.a
        /\ last' = [NoCall EXCEPT !.op = "freeze_cash"]
        /\ UNCHANGED <<positions, trade_records, orders, pool, ordVars, posVars, appVars>>

\* MockTradeGateway.daily_settlement
StDailySettlement ==
    /\ pool' = cancel_all_open_orders(orders, pool)
    /\ positions' = [t \in DOMAIN positions |-> settle_t_plus_1(positions[t])]
    /\ last' = [NoCall EXCEPT !.op = "daily_settlement"]
    /\ UNCHANGED <<asset, trade_records, orders, ordVars, posVars, appVars>>

\* DailySettlementService.process_daily_settlement on the gateway's orders,
\* positions and asset
StProcessDailySettlement ==
    \E r \in {process_daily_settlement(pool, positions, asset)} :
        /\ Stored = 1..Len(pool)
        /\ pool' = r.objs
        /\ positions' = r.ps
        /\ asset' = r.a
        /\ last' = [NoCall EXCEPT !.op = "process_daily_settlement",
                                  !.result = IF r.ok THEN "ok" ELSE "error"]
        /\ UNCHANGED <<trade_records, orders, ordVars, posVars, appVars>>

NextSettle ==
    \/ StPlaceOrder
    \/ StOnFill
    \/ StFreezeCash
    \/ StDailySettlement
    \/ StProcessDailySettlement

SpecSettle == Init /\ [][NextSettle]_vars

-----------------------------------------------------------------------------
(* Asset specification: one Asset object and a caller of its four        *)
(* methods; last records the call, the asset before it, and the call     *)
(* before it.                                                             *)

Amounts == -1..MaxAmount

AssetCall(method, amount, ok, before, prior) ==
    [op |-> method, amount |-> amount, ok |-> ok, before |-> before, prior |-> prior]

\* what a call keeps of the call before it
Prior(c) == [op |-> c.op, amount |-> c.amount, ok |-> c.ok, before |-> c.before]

InitAsset ==
    /\ \E total \in 0..MaxCash : asset = NewAsset(total)
    /\ last = AssetCall("init", 0, TRUE, asset,
                        [op |-> "none", amount |-> 0, ok |-> TRUE, before |-> asset])
    /\ positions = <<>>
    /\ trade_records = <<>>
    /\ orders = <<>>
    /\ pool = <<>>
    /\ IdleOrd
    /\ IdlePos
    /\ IdleApp

AsFreezeCash ==
    /\ \E amount \in Amounts : \E r \in {freeze_cash(asset, amount)} :
          /\ asset' = r.a
          /\ last' = AssetCall("freeze_cash", amount, r.ok, asset, Prior(last))
    /\ UNCHANGED <<positions, trade_records, orders, pool, ordVars, posVars, appVars>>

AsUnfreezeCash ==
    /\ \E amount \in Amounts : \E r \in {unfreeze_cash(asset, amount)} :
          /\ asset' = r.a
          /\ last' = AssetCall("unfreeze_cash", amount, r.ok, asset, Prior(last))
    /\ UNCHANGED <<positions, trade_records, orders, pool, ordVars, posVars, appVars>>

AsDeductFrozenCash ==
    /\ \E amount \in Amounts : \E r \in {deduct_frozen_cash(asset, amount)} :
          /\ asset' = r.a
          /\ last' = AssetCall("deduct_frozen_cash", amount, r.ok, asset, Prior(last))
    /\ UNCHANGED <<positions, trade_records, orders, pool, ordVars, posVars, appVars>>

AsDeposit ==
    /\ \E amount \in Amounts : \E r \in {deposit(asset, amount)} :
          /\ asset.total_asset + amount <= MaxCash
          /\ asset' = r.a
          /\ last' = AssetCall("deposit", amount, r.ok, asset, Prior(last))
    /\ UNCHANGED <<positions, trade_records, orders, pool, ordVars, posVars, appVars>>

NextAsset ==
    \/ AsFreezeCash
    \/ AsUnfreezeCash
    \/ AsDeductFrozenCash
    \/ AsDeposit

SpecAsset == InitAsset /\ [][NextAsset]_vars

-----------------------------------------------------------------------------
(* Properties of the gateway *)

Placed == last.op = "place_order"
Raised == Placed /\ last.result \in SubmitErrors
Accepted == Placed /\ last.result = "ok"
TheOrder == pool[last.idx]
TheBar == last.bars[1]

\* max_fill = floor(bar.volume * 0.10 / 100) * 100
MaxFill(bar) == ((bar.volume \div 10) \div 100) * 100

\* close * (1 + 0.001) and close * (1 - 0.001)
BuyPrice(bar) == bar.close + bar.close \div 1000
SellPrice(bar) == bar.close - bar.close \div 1000

\* max(amount * 0.00025, 5.00) + amount * 0.00001 (+ amount * 0.0005 on SELL)
BuyFees(amount) == Max(amount \div 4000, 5 * Scale) + amount \div 100000
SellFees(amount) == Max(amount \div 4000, 5 * Scale) + amount \div 100000 + amount \div 2000

\* the amounts of the model are whole multiples of every rate's denominator
Exact(amount) == amount % 100000 = 0

AvailableOf(ps, t) == IF t \in DOMAIN ps THEN ps[t].available_volume ELSE 0
TotalOf(ps, t) == IF t \in DOMAIN ps THEN ps[t].total_volume ELSE 0

\* C1: in every reachable state of the gateway available_cash >= 0 and
\* frozen_cash >= 0.
C1_CashNonNegative == asset.available_cash >= 0 /\ asset.frozen_cash >= 0

\* C2: a SELL whose fill volume exceeds the position's available_volume raises
\* OrderSubmitError for insufficient position, leaves the order REJECTED and
\* leaves asset, positions and trade log unchanged.
C2_UnsettledSharesNotSellable ==
    [][(Placed' /\ TheOrder'.direction = "SELL" /\ last'.bars # NoBars
        /\ Min(TheOrder'.volume, MaxFill(TheBar')) > AvailableOf(positions, TheOrder'.ticker))
       => /\ last'.result = "insufficient_position"
          /\ TheOrder'.status = "REJECTED"
          /\ asset' = asset
          /\ positions' = positions
          /\ trade_records' = trade_records]_vars

C4_SingleBarAtomic ==
    /\ (Placed /\ last.result \in SubmitErrors \cup {"ok"})
          => TheOrder.status \in {"FILLED", "PARTIAL_CANCELED", "REJECTED"}
    /\ \A i \in Stored : pool[i].status \notin {"SUBMITTED", "PARTIAL_FILLED"}

\* C5: for every order traded_volume <= volume, and in a terminal status
\* traded_volume = volume exactly when the status is FILLED.
C5_TradedVolume ==
    \A i \in 1..Len(pool) :
        /\ pool[i].traded_volume <= pool[i].volume
        /\ pool[i].status \in {"FILLED", "CANCELED", "REJECTED", "PARTIAL_CANCELED"}
              => (pool[i].traded_volume = pool[i].volume <=> pool[i].status = "FILLED")

\* C8: an accepted BUY changes available_cash + frozen_cash by
\* -(amount + fees_total), amount = close * 1.001 * fill_volume and
\* fees_total = max(amount * 0.00025, 5.00) + amount * 0.00001; frozen_cash ends
\* at its value before the call and total_asset falls by exactly fees_total.
C8_BuyCashConservation ==
    [][(Accepted' /\ TheOrder'.direction = "BUY")
       => LET fill_volume == Min(TheOrder'.volume, MaxFill(TheBar'))
              amount == BuyPrice(TheBar') * fill_volume
              fees_total == BuyFees(amount)
          IN  /\ Exact(amount)
              /\ (asset'.available_cash + asset'.frozen_cash)
                    - (asset.available_cash + asset.frozen_cash) = -(amount + fees_total)
              /\ asset'.frozen_cash = asset.frozen_cash
              /\ asset'.total_asset = asset.total_asset - fees_total]_vars

\* a BUY was accepted whose commission lies above the 5.00 minimum
C8_Witness ==
    /\ Accepted
    /\ TheOrder.direction = "BUY"
    /\ (BuyPrice(TheBar) * TheOrder.traded_volume) \div 4000 > 5 * Scale

\* C9: an accepted SELL freezes no cash, raises available_cash by exactly
\* amount - fees_total, amount = close * 0.999 * fill_volume and fees_total =
\* max(amount * 0.00025, 5.00) + amount * 0.00001 + amount * 0.0005, and lowers
\* total_asset by fees_total.
C9_SellProceeds ==
    [][(Accepted' /\ TheOrder'.direction = "SELL")
       => LET fill_volume == Min(TheOrder'.volume, MaxFill(TheBar'))
              amount == SellPrice(TheBar') * fill_volume
              fees_total == SellFees(amount)
          IN  /\ Exact(amount)
              /\ last'.frozen_amount = 0
              /\ asset'.frozen_cash = asset.frozen_cash
              /\ asset'.available_cash = asset.available_cash + amount - fees_total
              /\ asset'.total_asset = asset.total_asset - fees_total]_vars

\* a SELL was accepted at a positive price, stamp duty included
C9_Witness ==
    /\ Accepted
    /\ TheOrder.direction = "SELL"
    /\ TheBar.close > 0
    /\ trade_records[Len(trade_records)].commission
          = SellFees(SellPrice(TheBar) * TheOrder.traded_volume)

\* C10: an order is rejected for insufficient liquidity exactly when
\* max_fill < 100; an accepted order has traded_volume = min(volume, max_fill),
\* moves its position by traded_volume only, and ends PARTIAL_CANCELED when
\* traded_volume < volume, else FILLED.
C10_LiquidityCapacity ==
    [][(Placed' /\ last'.bars # NoBars)
       => LET o == TheOrder'
              max_fill == MaxFill(TheBar')
              signed == IF o.direction = "BUY" THEN o.traded_volume
                                               ELSE -o.traded_volume
          IN  /\ last'.result = "insufficient_liquidity" <=> max_fill < 100
              /\ Accepted'
                    => /\ o.traded_volume = Min(o.volume, max_fill)
                       /\ \A t \in Tickers :
                             TotalOf(positions', t) - TotalOf(positions, t)
                                = IF t = o.ticker THEN signed ELSE 0
                       /\ o.status = IF o.traded_volume < o.volume
                                     THEN "PARTIAL_CANCELED" ELSE "FILLED"]_vars

-----------------------------------------------------------------------------
(* Properties of the Order and Position entities *)

\* the state table of the order life cycle
Transitions ==
    { <<"CREATED", "submit", "SUBMITTED">>,
      <<"SUBMITTED", "on_fill", "PARTIAL_FILLED">>,
      <<"SUBMITTED", "on_fill", "FILLED">>,
      <<"SUBMITTED", "cancel", "CANCELED">>,
      <<"SUBMITTED", "reject", "REJECTED">>,
      <<"PARTIAL_FILLED", "on_fill", "PARTIAL_FILLED">>,
      <<"PARTIAL_FILLED", "on_fill", "FILLED">>,
      <<"PARTIAL_FILLED", "cancel", "PARTIAL_CANCELED">> }

HasTransition(status, method) == \E t \in Transitions : t[1] = status /\ t[2] = method

\* C6: submit, on_fill, cancel and reject perform exactly the transitions of
\* the state table; called in a state without a transition a method raises and
\* leaves status and traded_volume unchanged, so the four terminal states are
\* absorbing.
C6_OrderStateTable ==
    ordCall.method # "init" =>
        LET b == ordCall.before
            m == ordCall.method
            v == ordCall.fill_volume
        IN  /\ ord # b => ordCall.ok /\ <<b.status, m, ord.status>> \in Transitions
            /\ ~HasTransition(b.status, m)
                  => /\ ~ordCall.ok
                     /\ ord.status = b.status
                     /\ ord.traded_volume = b.traded_volume
            /\ (HasTransition(b.status, m) /\ m # "on_fill")
                  => ordCall.ok /\ <<b.status, m, ord.status>> \in Transitions
            /\ (HasTransition(b.status, m) /\ m = "on_fill" /\ v > 0
                   /\ b.traded_volume + v <= b.volume)
                  => /\ ordCall.ok
                     /\ ord.traded_volume = b.traded_volume + v
                     /\ ord.status = IF ord.traded_volume = b.volume
                                     THEN "FILLED" ELSE "PARTIAL_FILLED"
            /\ b.status \in {"FILLED", "CANCELED", "REJECTED", "PARTIAL_CANCELED"}
                  => ord = b

\* reject was called on a partially filled order, raised and changed nothing
C6_Witness ==
    /\ ordCall.method = "reject"
    /\ ordCall.before.status = "PARTIAL_FILLED"
    /\ ~ordCall.ok
    /\ ord = ordCall.before

\* C7: 0 <= available_volume <= total_volume, total_volume = 0 implies
\* average_cost = 0, and on_sell_filled with volume > available_volume raises
\* and changes nothing.
C7_PositionInvariant ==
    /\ 0 <= pos.available_volume
    /\ pos.available_volume <= pos.total_volume
    /\ pos.total_volume = 0 => pos.average_cost = QZero
    /\ (posCall.method = "on_sell_filled"
        /\ posCall.volume > posCall.before.available_volume)
          => ~posCall.ok /\ pos = posCall.before

\* shares held but not yet settled were offered for sale and the sale raised
C7_Witness ==
    /\ posCall.method = "on_sell_filled"
    /\ posCall.volume > posCall.before.available_volume
    /\ posCall.volume <= posCall.before.total_volume
    /\ ~posCall.ok

-----------------------------------------------------------------------------
(* Further properties of the gateway *)

\* C11: a SELL of any positive volume up to the position's available_volume,
\* volumes below 100 included, placed while max_fill >= 100 is accepted and
\* filled with min(volume, max_fill) shares.  (An Order object that was placed
\* before is refused by Order.submit and is not the case of the claim.)
C11_OddLotsSellable ==
    [][(/\ Placed'
        /\ TheOrder'.direction = "SELL"
        /\ last'.bars # NoBars
        /\ MaxFill(TheBar') >= 100
        /\ TheOrder'.volume <= AvailableOf(positions, TheOrder'.ticker)
        /\ last'.result # "submit_error")
       => /\ Accepted'
          /\ TheOrder'.traded_volume = Min(TheOrder'.volume, MaxFill(TheBar'))
          /\ TotalOf(positions', TheOrder'.ticker)
                = TotalOf(positions, TheOrder'.ticker) - TheOrder'.traded_volume]_vars

\* C12: the positions map holds a ticker exactly when that position's
\* total_volume > 0; an entry appears only with an accepted BUY of its ticker
\* and disappears only with an accepted SELL of its ticker.
C12_PositionLifecycle ==
    /\ [](\A t \in DOMAIN positions : positions[t].total_volume > 0)
    /\ [][\A t \in Tickers :
            /\ (t \notin DOMAIN positions /\ t \in DOMAIN positions')
                  => Accepted' /\ TheOrder'.direction = "BUY" /\ TheOrder'.ticker = t
            /\ (t \in DOMAIN positions /\ t \notin DOMAIN positions')
                  => Accepted' /\ TheOrder'.direction = "SELL" /\ TheOrder'.ticker = t]_vars

\* C13 as stated: after BUYs (v_i, p_i), interleaved with sales that never
\* empty the position, average_cost = (sum of v_i * p_i) / (sum of v_i) over
\* all the BUYs.
C13_CostBasisOverAllBuys ==
    posCall.bought_volume > 0
        => pos.average_cost = QDivInt(QInt(posCall.bought_cost), posCall.bought_volume)

\* C13 amended: after BUYs (v_i, p_i) with no sale among them since the
\* position was last empty, average_cost = (sum of v_i * p_i) / (sum of v_i);
\* a sale that does not empty the position leaves average_cost as it is.
C13_CostBasis ==
    /\ (posCall.bought_volume > 0 /\ ~posCall.sold)
          => pos.average_cost = QDivInt(QInt(posCall.bought_cost), posCall.bought_volume)
    /\ (posCall.method = "on_sell_filled" /\ posCall.ok /\ pos.total_volume > 0)
          => pos.average_cost = posCall.before.average_cost

\* BUYs at different prices and unequal volumes, no sale among them
C13_Witness ==
    /\ posCall.method = "on_buy_filled"
    /\ posCall.ok
    /\ ~posCall.sold
    /\ posCall.before.total_volume > 0
    /\ posCall.volume # posCall.before.total_volume
    /\ pos.average_cost # posCall.before.average_cost
    /\ pos.average_cost.n # 0

\* C20: when place_order raises after the order was submitted (while freezing
\* the cash or during the fill), asset, the positions map, the orders map and
\* the trade log are as they were before the call.
C20_LogicalTransaction ==
    [][(Placed' /\ last'.result \in {"freeze_error", "fill_error", "rollback_error"})
       => /\ asset' = asset
          /\ positions' = positions
          /\ orders' = orders
          /\ trade_records' = trade_records]_vars


-----------------------------------------------------------------------------
(* Properties of the market gateway *)

\* the bars of (symbol, timeframe) that are visible at the clock, oldest first
Visible(m, symbol, timeframe) ==
    IF symbol \in DOMAIN m.data /\ timeframe \in DOMAIN m.data[symbol]
    THEN SelectSeq(m.data[symbol][timeframe], LAMBDA bar : bar.timestamp <= m.current_time)
    ELSE <<>>

\* C19: get_recent_bars(symbol, timeframe, limit) returns, for every clock and
\* every limit >= 0, at most limit bars, all of the requested symbol and
\* timeframe with timestamp <= clock, in ascending timestamp order, and they
\* are the latest such bars; for an unknown symbol or timeframe it returns the
\* empty list.
C19_RecentBars ==
    mktCall.method = "get_recent_bars" =>
        LET result == mktCall.result
            visible == Visible(mkt, mktCall.symbol, mktCall.timeframe)
            n == Len(result)
        IN  /\ n <= mktCall.limit
            /\ \A j \in 1..n :
                  /\ result[j].symbol = mktCall.symbol
                  /\ result[j].timeframe = mktCall.timeframe
                  /\ result[j].timestamp <= mkt.current_time
            /\ \A j \in 1..(n - 1) : result[j].timestamp <= result[j + 1].timestamp
            /\ n = Min(mktCall.limit, Len(visible))
            /\ result = SubSeq(visible, Len(visible) - n + 1, Len(visible))
            /\ (mktCall.symbol \notin DOMAIN mkt.data
                \/ mktCall.timeframe \notin DOMAIN mkt.data[mktCall.symbol])
                  => result = <<>>

-----------------------------------------------------------------------------
(* Properties of the backtest driver *)

\* the steps of a day in the order in which C14 lists them
DayOrder == <<"set_current_time", "daily_settlement", "fetch_bars",
              "generate_signals", "place_order", "cancel_all_open_orders",
              "record_snapshot">>

Rank(op) == CHOOSE r \in DOMAIN DayOrder : DayOrder[r] = op

\* the events of the day that are steps of C14 (a failed construction of an
\* Order is no such step)
DaySteps == SelectSeq(bt.log, LAMBDA e : e.op \in {DayOrder[r] : r \in DOMAIN DayOrder})

\* C14: within each day the steps occur in the order set clock ->
\* daily_settlement -> fetch bars -> generate_signals -> place_order per signal
\* in signal order -> cancel_all_open_orders -> record snapshot, none of them
\* skipped; every step but place_order occurs once, place_order at most once
\* per signal (once for every signal for which the driver builds an order);
\* so the settlement precedes every order of the day and no order follows the
\* snapshot.
C14_DayStepOrder ==
    LET steps == DaySteps
        n == Len(steps)
    IN  /\ bt.pc \notin {"set_current_time", "done"} => n > 0
        /\ n > 0 => steps[1].op = "set_current_time"
        /\ \A j \in 1..(n - 1) :
              LET a == steps[j]
                  b == steps[j + 1]
              IN  \/ Rank(b.op) = Rank(a.op) + 1
                  \/ a.op = "place_order" /\ b.op = "place_order" /\ a.k < b.k
                  \/ a.op = "generate_signals" /\ b.op = "cancel_all_open_orders"
                  \/ a.op = "place_order" /\ b.op = "cancel_all_open_orders"
        /\ \A j \in 1..n :
              steps[j].op = "place_order" => steps[j].k \in 1..Len(bt.signals)
        /\ \A j \in 1..n :
              steps[j].op = "cancel_all_open_orders" =>
                  \A k \in 1..Len(bt.signals) :
                      LET signal == bt.signals[k]
                          built == /\ signal.symbol \in DOMAIN bt.current_prices
                                   /\ bt.current_prices[signal.symbol] # 0
                                   /\ signal.direction = "BUY" => signal.target_volume >= 100
                      IN  built <=> \E i \in 1..n : steps[i].op = "place_order"
                                                    /\ steps[i].k = k
        /\ bt.pc = "set_current_time" /\ bt.snapshots # <<>>
              => n >= 6 /\ steps[n].op = "record_snapshot"

\* a day with two orders, the first of which failed, is over
C14_Witness ==
    /\ bt.pc = "set_current_time"
    /\ Len(DaySteps) = 8
    /\ DaySteps[5].result # "ok"
    /\ DaySteps[6].result = "ok"


\* C15: no failure of an order aborts the run: no exception leaves
\* run_backtest, every signal of a day is processed whatever happened to the
\* signals before it, every day that is over has its snapshot, and the run
\* ends with exactly one snapshot for every day of [start_date, end_date].
C15_NeverAborts ==
    /\ bt.pc # "raised"
    /\ bt.pc \in {"cancel_all_open_orders", "record_snapshot"} => bt.k = Len(bt.signals)
    /\ Len(bt.snapshots) = bt.current_date - bt.start_date
    /\ \A j \in 1..Len(bt.snapshots) : bt.snapshots[j].date = bt.start_date + j - 1
    /\ bt.pc = "done" => Len(bt.snapshots) = bt.end_date - bt.start_date + 1


\* C16: every place_order of the driver comes directly after a call of
\* RiskPolicy.check on the same order that returned Pass, so that an order the
\* gate rejects is never matched.
C16_RiskGateBeforeMatching ==
    \A j \in DOMAIN bt.log :
        bt.log[j].op = "place_order" =>
            /\ j > 1
            /\ bt.log[j - 1].op = "check"
            /\ bt.log[j - 1].k = bt.log[j].k
            /\ bt.log[j - 1].result = "Pass"
            /\ check(bt.log[j].price, bt.signals[bt.log[j].k].target_volume) = "Pass"


\* the close of the latest bar of ticker t that is visible at the clock: the
\* day's close when the day has a bar of t
CloseOf(t) ==
    LET visible == Visible(mkt, t, "1d")
    IN  visible[Len(visible)].close

RECURSIVE HeldValue(_)
\* sum over the positions of the tickers ts of total_volume * close
HeldValue(ts) ==
    IF ts = {} THEN 0
    ELSE LET t == CHOOSE x \in ts : TRUE
         IN  positions[t].total_volume * CloseOf(t) + HeldValue(ts \ {t})

SnapshotTaken == bt.pc \in {"set_current_time", "done"} /\ bt.snapshots # <<>>

\* C17: after every snapshot recorded by the driver asset.total_asset =
\* available_cash + frozen_cash + sum over the positions of total_volume *
\* close of the day, and the snapshot's total_asset, available_cash and
\* market_value are exactly these values.
C17_SnapshotAccounting ==
    SnapshotTaken =>
        LET snapshot == bt.snapshots[Len(bt.snapshots)]
            market_value == HeldValue(DOMAIN positions)
        IN  /\ asset.total_asset = asset.available_cash + asset.frozen_cash + market_value
            /\ snapshot.total_asset = asset.total_asset
            /\ snapshot.available_cash = asset.available_cash
            /\ snapshot.market_value = market_value

\* a snapshot of a day on which a position bought earlier is still held
C17_Witness ==
    /\ SnapshotTaken
    /\ Len(bt.snapshots) = 2
    /\ bt.snapshots[2].market_value > 0
    /\ bt.snapshots[2].pnl # 0
    /\ asset.frozen_cash = 0
    /\ trade_records # <<>>


\* the markets that hold the same bars as m up to m's clock and any bars
\* after it
AltMarkets(m) ==
    LET after == (m.current_time + 1)..MaxDate
        Loaded(ha, hb) == add_bars(add_bars(NewMarket(<<>>), "A", ha), "B", hb)
    IN  { set_current_time(Loaded(Visible(m, "A", "1d") \o ta,
                                  Visible(m, "B", "1d") \o tb), m.current_time) :
            ta \in History("A", after), tb \in History("B", after) }

\* the signal loop's next pass, run against market m
ExecuteNext(m) ==
    execute_signal(Ledger(asset, positions, trade_records, orders), pool, m,
                   bt.current_prices, bt.current_date, bt.k + 1,
                   next_signal(bt.signals, bt.k))

\* C18: whatever bars a market holds after the clock of the day, the day's
\* steps that read the market give the same result: the same bars and prices
\* fetched, and for every signal the same order, fill, ledger and trade
\* records.  Two runs of one strategy over markets that agree up to day D are
\* then in the same state after every step up to day D, snapshots included.
C18_LookAheadFree ==
    /\ Running("fetch_bars") =>
          \A alt \in AltMarkets(mkt) : fetch_bars(alt, Symbols) = fetch_bars(mkt, Symbols)
    /\ Running("execute_signal") =>
          \A alt \in AltMarkets(mkt) : ExecuteNext(alt) = ExecuteNext(mkt)

\* an order is about to be filled on a day after which the market has a bar
\* that another market replaces
C18_Witness ==
    /\ Running("execute_signal")
    /\ ExecuteNext(mkt).outcome = "placed"
    /\ bt.current_date < MaxDate
    /\ Len(mkt.data["A"]["1d"]) > Len(Visible(mkt, "A", "1d"))
    /\ \E alt \in AltMarkets(mkt) : alt.data # mkt.data

-----------------------------------------------------------------------------
(* Properties of the daily settlement *)

IsOpen(o) == o.status \in {"SUBMITTED", "PARTIAL_FILLED"}

RECURSIVE OpenBuyAmount(_, _)
\* sum over the open BUY orders among objs[1..n] of
\* remaining_volume * limit price + estimated fees
OpenBuyAmount(objs, n) ==
    IF n = 0 THEN 0
    ELSE LET o == objs[n]
             amount == (o.volume - o.traded_volume) * o.price
         IN  OpenBuyAmount(objs, n - 1)
             + (IF IsOpen(o) /\ o.direction = "BUY" THEN amount + BuyFees(amount) ELSE 0)

Settled == last.op \in {"daily_settlement", "process_daily_settlement"}

\* C21: a daily settlement, by the gateway or by the service, leaves no order
\* SUBMITTED or PARTIAL_FILLED: SUBMITTED orders become CANCELED and
\* PARTIAL_FILLED ones PARTIAL_CANCELED, as cancel() does; the amounts frozen
\* for the cancelled BUYs, clamped to frozen_cash, move from frozen_cash to
\* available_cash; other orders are untouched; every position is promoted by
\* settle_t_plus_1.
C21_DailySettlement ==
    [][Settled' =>
        LET refund == Min(OpenBuyAmount(pool, Len(pool)), asset.frozen_cash)
        IN  /\ \A i \in Stored :
                  /\ ~IsOpen(pool'[i])
                  /\ pool[i].status = "SUBMITTED" =>
                        pool'[i] = [pool[i] EXCEPT !.status = "CANCELED"]
                  /\ pool[i].status = "PARTIAL_FILLED" =>
                        pool'[i] = [pool[i] EXCEPT !.status = "PARTIAL_CANCELED"]
                  /\ ~IsOpen(pool[i]) => pool'[i] = pool[i]
            /\ asset'.frozen_cash = asset.frozen_cash - refund
            /\ asset'.available_cash = asset.available_cash + refund
            /\ asset'.total_asset = asset.total_asset
            /\ DOMAIN positions' = DOMAIN positions
            /\ \A t \in DOMAIN positions :
                  positions'[t] = [positions[t] EXCEPT
                                      !.available_volume = positions[t].total_volume]]_vars


C23_TradeRecord ==
    [][Placed' =>
        IF last'.result = "ok"
        THEN LET order == pool'[last'.idx]
                 record == trade_records'[Len(trade_records')]
                 gain == last'.exec_price * last'.fill_volume - last'.fees
                 cost == positions[order.ticker].average_cost
             IN  /\ Len(trade_records') = Len(trade_records) + 1
                 /\ SubSeq(trade_records', 1, Len(trade_records)) = trade_records
                 /\ record.symbol = order.ticker
                 /\ record.direction = order.direction
                 /\ record.volume = last'.fill_volume
                 /\ record.price = last'.exec_price
                 /\ order.direction = "BUY" => record.realized_pnl = QZero
                 /\ order.direction = "SELL" =>
                       QAdd(record.realized_pnl, QMulInt(cost, last'.fill_volume))
                          = QInt(gain)
        ELSE trade_records' = trade_records]_vars

\* a sale of part of the volume asked for, at a price other than the cost,
\* has been recorded
C23_Witness ==
    /\ Accepted
    /\ TheOrder.direction = "SELL"
    /\ last.fill_volume < TheOrder.volume
    /\ trade_records[Len(trade_records)].realized_pnl # QInt(-last.fees)


-----------------------------------------------------------------------------
(* Properties of the snapshots *)

\* C24: a snapshot recorded a second time for the same clock, with no change
\* of the ledger or of the prices in between, equals the first in every
\* field (date, total_asset, available_cash, market_value, pnl, return_rate).
C24_IdempotentSnapshot ==
    [][(/\ Len(bt'.log) = Len(bt.log) + 1
        /\ bt'.log[Len(bt'.log)].op = "record_snapshot_again") =>
            /\ Len(bt'.snapshots) = Len(bt.snapshots) + 1
            /\ bt'.snapshots[Len(bt'.snapshots)] = bt.snapshots[Len(bt.snapshots)]]_vars


-----------------------------------------------------------------------------
(* Properties of the asset *)

AssetCalled == last.op \in {"freeze_cash", "unfreeze_cash", "deduct_frozen_cash", "deposit"}

\* the precondition of a method of Asset for an amount, on asset a
Precondition(method, amount, a) ==
    CASE method = "freeze_cash" -> 0 < amount /\ amount <= a.available_cash
      [] method = "unfreeze_cash" -> 0 < amount /\ amount <= a.frozen_cash
      [] method = "deduct_frozen_cash" -> 0 < amount /\ amount <= a.frozen_cash
      [] method = "deposit" -> 0 < amount

\* C25: freeze_cash, unfreeze_cash, deduct_frozen_cash and deposit succeed
\* exactly when their precondition holds, and otherwise raise leaving
\* available_cash, frozen_cash and total_asset as they were.
C25_AssetPreconditions ==
    AssetCalled =>
        /\ last.ok <=> Precondition(last.op, last.amount, last.before)
        /\ ~last.ok => asset = last.before

\* each of the four methods has raised on a positive amount it cannot
\* serve, or on an amount that is not positive
C25_Witness ==
    /\ AssetCalled
    /\ ~last.ok
    /\ last.amount > 0
    /\ last.op = "freeze_cash"
    /\ last.before.frozen_cash > 0

\* C26: freeze_cash and unfreeze_cash move the amount between available_cash
\* and frozen_cash, keeping their sum and total_asset; unfreeze_cash of the
\* amount just frozen restores the asset; deduct_frozen_cash lowers only
\* frozen_cash; deposit adds the amount to available_cash and total_asset.
C26_AssetFrames ==
    (AssetCalled /\ last.ok) =>
        LET b == last.before
            x == last.amount
        IN  /\ last.op = "freeze_cash" =>
                 asset = [b EXCEPT !.available_cash = b.available_cash - x,
                                   !.frozen_cash = b.frozen_cash + x]
            /\ last.op = "unfreeze_cash" =>
                 asset = [b EXCEPT !.available_cash = b.available_cash + x,
                                   !.frozen_cash = b.frozen_cash - x]
            /\ last.op \in {"freeze_cash", "unfreeze_cash"} =>
                 /\ asset.available_cash + asset.frozen_cash
                       = b.available_cash + b.frozen_cash
                 /\ asset.total_asset = b.total_asset
            /\ (/\ last.op = "unfreeze_cash"
                /\ last.prior.op = "freeze_cash" /\ last.prior.ok
                /\ last.prior.amount = x) => asset = last.prior.before
            /\ last.op = "deduct_frozen_cash" =>
                 asset = [b EXCEPT !.frozen_cash = b.frozen_cash - x]
            /\ last.op = "deposit" =>
                 asset = [b EXCEPT !.available_cash = b.available_cash + x,
                                   !.total_asset = b.total_asset + x]

\* the amount just frozen has been released again, on an asset that held
\* frozen cash before
C26_Witness ==
    /\ last.op = "unfreeze_cash" /\ last.ok
    /\ last.prior.op = "freeze_cash" /\ last.prior.ok
    /\ last.prior.amount = last.amount
    /\ last.prior.before.frozen_cash > 0
    /\ asset.total_asset > asset.available_cash + asset.frozen_cash


-----------------------------------------------------------------------------
(* Properties of the T+1 settlement *)

\* C27: right after Position.settle_t_plus_1, and for every position held
\* after MockTradeGateway.daily_settlement, available_volume = total_volume,
\* and total_volume and average_cost are what they were before.
C27_SettleTPlus1 ==
    /\ [](posCall.method = "settle_t_plus_1" =>
            /\ pos.available_volume = pos.total_volume
            /\ pos.total_volume = posCall.before.total_volume
            /\ pos.average_cost = posCall.before.average_cost)
    /\ [][last'.op = "daily_settlement" =>
            /\ DOMAIN positions' = DOMAIN positions
            /\ \A t \in DOMAIN positions :
                  /\ positions'[t].available_volume = positions'[t].total_volume
                  /\ positions'[t].total_volume = positions[t].total_volume
                  /\ positions'[t].average_cost = positions[t].average_cost]_vars

\* the gateway has settled a day on which shares were bought
C27_Witness ==
    /\ last.op = "daily_settlement"
    /\ \E t \in DOMAIN positions :
          /\ positions[t].available_volume > 0
          /\ positions[t].average_cost # QZero


-----------------------------------------------------------------------------
(* Properties of the fills of an order *)

\* C28: on_fill(v, p) with v > 0 succeeds exactly when the status is SUBMITTED
\* or PARTIAL_FILLED and traded_volume + v <= volume, and otherwise raises
\* leaving the order unchanged; on success traded_volume grows by v,
\* traded_price is the volume-weighted average price of all fills, and the
\* status is FILLED if traded_volume = volume and PARTIAL_FILLED otherwise.
C28_OnFill ==
    (ordCall.method = "on_fill" /\ ordCall.fill_volume > 0) =>
        LET b == ordCall.before
            v == ordCall.fill_volume
        IN  /\ ordCall.ok <=> /\ b.status \in {"SUBMITTED", "PARTIAL_FILLED"}
                              /\ b.traded_volume + v <= b.volume
            /\ ~ordCall.ok => ord = b
            /\ ordCall.ok =>
                  /\ ord.traded_volume = b.traded_volume + v
                  /\ QMulInt(ord.traded_price, ord.traded_volume)
                        = QInt(ordCall.filled_value)
                  /\ ord.status = IF ord.traded_volume = ord.volume
                                  THEN "FILLED" ELSE "PARTIAL_FILLED"
                  /\ ord = [b EXCEPT !.traded_volume = ord.traded_volume,
                                     !.traded_price = ord.traded_price,
                                     !.status = ord.status]

\* a second fill at another price than the first has succeeded
C28_Witness ==
    /\ ordCall.method = "on_fill" /\ ordCall.ok
    /\ ordCall.fill_volume > 0
    /\ ordCall.before.traded_volume > 0
    /\ ordCall.before.traded_price # QInt(ordCall.fill_price)
    /\ ord.status = "PARTIAL_FILLED"


-----------------------------------------------------------------------------
(* Properties of the risk policy *)

\* C29: SimpleRiskPolicy.check answers Reject when volume <= 0 or price <= 0,
\* except that a price of exactly 0 is allowed for a MARKET order, answers
\* Pass otherwise, and leaves the order as it was.
C29_RiskCheck ==
    ordCall.method = "check" =>
        /\ ordCall.result =
              IF \/ ord.volume <= 0
                 \/ ord.price < 0
                 \/ ord.price = 0 /\ ord.type # "MARKET"
              THEN "Reject" ELSE "Pass"
        /\ ord = ordCall.before


-----------------------------------------------------------------------------
(* Properties of the strategy *)

RECURSIVE CloseSum(_, _, _)
\* the sum of the closes of bars[from..to]
CloseSum(bars, from, to) ==
    IF from > to THEN 0 ELSE bars[to].close + CloseSum(bars, from, to - 1)

\* the signals of an answer that name a symbol
SignalsFor(symbol) == SelectSeq(bt.signals, LAMBDA g : g.symbol = symbol)

\* C30: for a symbol with at least 11 bars the answer holds exactly one BUY
\* signal of target volume 100 iff MA5_prev <= MA10_prev and MA5_curr >
\* MA10_curr, exactly one SELL signal of the position's available_volume iff
\* MA5_prev >= MA10_prev and MA5_curr < MA10_curr and a position with
\* available_volume > 0 is held, and no signal otherwise; a symbol with fewer
\* than 11 bars yields none, and no symbol more than one.
C30_DualMa ==
    bt.called =>
        /\ \A j \in 1..Len(bt.signals) : bt.signals[j].symbol \in DOMAIN bt.market_data
        /\ \A symbol \in DOMAIN bt.market_data :
              LET bars == bt.market_data[symbol]
                  n == Len(bars)
                  mine == SignalsFor(symbol)
                  \* the averages times 10
                  MA5_curr == 2 * CloseSum(bars, n - 4, n)
                  MA10_curr == CloseSum(bars, n - 9, n)
                  MA5_prev == 2 * CloseSum(bars, n - 5, n - 1)
                  MA10_prev == CloseSum(bars, n - 10, n - 1)
                  held == /\ symbol \in DOMAIN positions
                          /\ positions[symbol].available_volume > 0
              IN  /\ Len(mine) <= 1
                  /\ n < 11 => mine = <<>>
                  /\ n >= 11 =>
                        /\ (Len(mine) = 1 /\ mine[1].direction = "BUY")
                              <=> (MA5_prev <= MA10_prev /\ MA5_curr > MA10_curr)
                        /\ (Len(mine) = 1 /\ mine[1].direction = "SELL")
                              <=> (MA5_prev >= MA10_prev /\ MA5_curr < MA10_curr /\ held)
                        /\ \A j \in 1..Len(mine) :
                              mine[j].target_volume =
                                 IF mine[j].direction = "BUY" THEN 100
                                 ELSE positions[symbol].available_volume

\* an answer with a SELL for A, from averages that were apart before the last
\* bar, and a BUY for B
C30_Witness ==
    /\ bt.called
    /\ Len(bt.signals) = 2
    /\ bt.signals[1] = [symbol |-> "A", direction |-> "SELL", target_volume |-> 200]
    /\ bt.signals[2].direction = "BUY"
    /\ Len(bt.market_data["A"]) = MaxStratBars


-----------------------------------------------------------------------------
(* Properties of the evaluator *)

RECURSIVE RunningPeak(_)
\* the running peak at the j-th snapshot: the largest of initial_capital and
\* the total_asset of the snapshots up to it
RunningPeak(j) ==
    IF j = 0 THEN bt.initial_capital
    ELSE Max(RunningPeak(j - 1), bt.snapshots[j].total_asset)

\* C31: max_drawdown is the maximum over the snapshots, in order, of
\* (running_peak - total_asset) / running_peak, the running peak starting at
\* initial_capital; it is >= 0, and 0 when no snapshot lies below the peak.
C31_MaxDrawdown ==
    (bt.called /\ ~bt.report.raised /\ bt.snapshots # <<>>) =>
        LET n == Len(bt.snapshots)
            result == bt.report.max_drawdown
            Drawdown(j) == QDivInt(QInt(RunningPeak(j) - bt.snapshots[j].total_asset),
                                   RunningPeak(j))
            below == {j \in 1..n : bt.snapshots[j].total_asset < RunningPeak(j)}
        IN  /\ \A j \in 1..n : ~QLess(result, Drawdown(j))
            /\ \E j \in 1..n : result = Drawdown(j)
            /\ ~QLess(result, QZero)
            /\ below = {} => result = QZero
            /\ below # {} => QLess(QZero, result)

\* a report over snapshots that fall below the initial capital first and
\* below a later, higher peak afterwards
C31_Witness ==
    /\ bt.called /\ ~bt.report.raised
    /\ Len(bt.snapshots) = 3
    /\ bt.snapshots[1].total_asset < bt.initial_capital
    /\ bt.snapshots[2].total_asset > bt.initial_capital
    /\ bt.snapshots[3].total_asset < bt.snapshots[2].total_asset
    /\ bt.snapshots[3].total_asset > 0
    /\ bt.report.max_drawdown = QDivInt(QInt(1), 2)

\* C32: with an empty snapshots list evaluate returns final_capital =
\* initial_capital and total_return, annualized_return, max_drawdown, win_rate
\* and trade_count all zero, whatever the trades are.
C32_EmptySnapshots ==
    (bt.called /\ bt.snapshots = <<>>) =>
        /\ ~bt.report.raised
        /\ bt.report.final_capital = bt.initial_capital
        /\ bt.report.total_return = QZero
        /\ bt.report.annualized_return.days = 0
        /\ bt.report.max_drawdown = QZero
        /\ bt.report.win_rate = QZero
        /\ bt.report.trade_count = 0


-----------------------------------------------------------------------------
(* Properties of the gateway's orders *)

\* the status of the i-th Order object before a step: CREATED for an object
\* the step constructs
StatusBefore(i) == IF i <= Len(pool) THEN pool[i].status ELSE "CREATED"

\* C33: every status change the gateway performs is a transition of the
\* state table: REJECTED is entered only from SUBMITTED, PARTIAL_CANCELED only
\* from PARTIAL_FILLED, CANCELED only from SUBMITTED, and an order in a
\* terminal state never changes status.  (A place_order that fills goes from
\* CREATED through SUBMITTED, and PARTIAL_FILLED, in one step.)
C33_GatewayTransitions ==
    [][\A i \in 1..Len(pool') :
          pool'[i].status # StatusBefore(i) =>
              IF last'.op = "place_order" /\ last'.result = "ok"
              THEN /\ StatusBefore(i) = "CREATED"
                   /\ pool'[i].status \in {"FILLED", "PARTIAL_CANCELED"}
              ELSE \E t \in Transitions :
                      t[1] = StatusBefore(i) /\ t[3] = pool'[i].status]_vars


-----------------------------------------------------------------------------
(* Further properties of the driver *)

\* C34: the Asset is changed only by place_order and by settlement: every
\* other step of the driver, recording the daily snapshot among them, leaves
\* available_cash, frozen_cash and total_asset as they were.
C34_AssetMutators ==
    [][asset' # asset =>
          /\ Len(bt'.log) = Len(bt.log) + 1
          /\ bt'.log[Len(bt'.log)].op \in {"place_order", "daily_settlement"}]_vars


\* C35: an order is filled only against a bar of the current simulated day:
\* on a day for which the ticker has no bar dated that day no trade record is
\* produced for the ticker.
C35_NoStaleFill ==
    [][Len(trade_records') > Len(trade_records) =>
          /\ last'.bars # NoBars
          /\ last'.bars[1].symbol = trade_records'[Len(trade_records')].symbol
          /\ last'.bars[1].timestamp = bt.current_date]_vars


\* C36: every order the gateway accepted during a run stays retrievable from
\* gateway.orders: the order ids are pairwise distinct, so the map holds as
\* many filled orders as there are trade records.
C36_OrdersRetrievable ==
    /\ \A i \in 1..Len(pool) :
          pool[i].traded_volume > 0 => \E id \in DOMAIN orders : orders[id] = i
    /\ Cardinality({id \in DOMAIN orders : pool[orders[id]].traded_volume > 0})
          = Len(trade_records)


-----------------------------------------------------------------------------
(* Reconciliation of the ledger with the trade log *)

RECURSIVE NetCash(_, _)
\* what the first n trade records paid (BUY: price * volume + fees) and
\* brought in (SELL: price * volume - fees), as a change of cash
NetCash(trs, n) ==
    IF n = 0 THEN 0
    ELSE NetCash(trs, n - 1)
            + (IF trs[n].direction = "BUY"
               THEN -(trs[n].price * trs[n].volume + trs[n].commission)
               ELSE trs[n].price * trs[n].volume - trs[n].commission)

\* C37: between place_order calls frozen_cash = 0 and available_cash =
\* initial capital - sum over BUY records of (price * volume + fees) + sum
\* over SELL records of (price * volume - fees).
C37_CashReconciles ==
    /\ asset.frozen_cash = 0
    /\ \E initial_capital \in InitialCapitals :
          asset.available_cash
             = initial_capital + NetCash(trade_records, Len(trade_records))

\* the position of ticker t in a positions map, an absent one counting as empty
Holding(ps, t) == IF t \in DOMAIN ps THEN ps[t] ELSE NewPosition

RECURSIVE NetVolume(_, _, _)
\* BUY volume minus SELL volume of ticker t in the first n trade records
NetVolume(trs, t, n) ==
    IF n = 0 THEN 0
    ELSE NetVolume(trs, t, n - 1)
            + (IF trs[n].symbol # t THEN 0
               ELSE IF trs[n].direction = "BUY" THEN trs[n].volume
               ELSE -trs[n].volume)

RECURSIVE BoughtAfter(_, _, _, _)
\* BUY volume of ticker t in the trade records m + 1 .. n
BoughtAfter(trs, t, m, n) ==
    IF n <= m THEN 0
    ELSE BoughtAfter(trs, t, m, n - 1)
            + (IF trs[n].symbol = t /\ trs[n].direction = "BUY"
               THEN trs[n].volume ELSE 0)

\* the volume of ticker t not yet available for sale
Unsettled(ps, t) == Holding(ps, t).total_volume - Holding(ps, t).available_volume

\* C38: for each ticker total_volume (0 when absent) is the BUY volume minus
\* the SELL volume of its trade records, and available_volume is total_volume
\* minus the volume bought since the most recent daily_settlement: the
\* unsettled volume is 0 before any trade and after a daily_settlement, and
\* every other step adds to it exactly the BUY volume the step recorded.
C38_HoldingsReconcile ==
    /\ [](\A t \in Tickers :
            /\ Holding(positions, t).total_volume
                  = NetVolume(trade_records, t, Len(trade_records))
            /\ trade_records = <<>> => Unsettled(positions, t) = 0)
    /\ [][\A t \in Tickers :
            Unsettled(positions', t)
               = IF last'.op = "daily_settlement" THEN 0
                 ELSE Unsettled(positions, t)
                        + BoughtAfter(trade_records', t, Len(trade_records),
                                      Len(trade_records'))]_vars

\* a ticker bought, settled and bought again: part of the holding is
\* available and the part bought since the settlement is not
C38_Witness ==
    \E t \in Tickers :
        /\ Len(trade_records) = 2
        /\ trade_records[1].symbol = t /\ trade_records[2].symbol = t
        /\ trade_records[2].direction = "BUY"
        /\ Unsettled(positions, t) = trade_records[2].volume
        /\ Holding(positions, t).available_volume = trade_records[1].volume


-----------------------------------------------------------------------------
(* Properties of the trading cycle *)

RECURSIVE Committed(_, _)
\* price * target_volume summed over the BUY orders among the first n
\* submitted ones
Committed(submitted, n) ==
    IF n = 0 THEN 0
    ELSE Committed(submitted, n - 1)
            + (IF submitted[n].direction = "BUY"
               THEN submitted[n].price * submitted[n].volume ELSE 0)

\* C39: within one cycle the sum of price * target_volume over the BUY
\* orders submitted to the trade gateway does not exceed the available_cash
\* read at the start of the cycle, and no BUY order is submitted whose own
\* price * target_volume exceeds available_cash.
C39_CycleCommitment ==
    bt.read =>
        /\ Committed(bt.submitted, Len(bt.submitted)) <= bt.available_cash
        /\ \A n \in 1..Len(bt.submitted) :
              bt.submitted[n].direction = "BUY"
                 => bt.submitted[n].price * bt.submitted[n].volume
                       <= bt.submitted[n].available_cash


-----------------------------------------------------------------------------
(* Properties of the order service *)

\* C40: an order in status CREATED that passes the risk policy, and for
\* which the gateway's market-data, liquidity and funds/position checks
\* are satisfied (the gateway called directly accepts it), is submitted to
\* the gateway once by OrderService.place_order, which returns a successful
\* OrderResult carrying the order id and leaves the order FILLED or
\* PARTIAL_CANCELED with the fill applied to asset, positions and trade log.
C40_ServicePlacesOrder ==
    [][LET direct == place_order(Ledger(asset, positions, trade_records, orders),
                                 bt'.idx, bt'.before, bt'.bars)
       IN  (/\ last'.op = "OrderService.place_order"
            /\ bt'.before.status = "CREATED"
            /\ check(bt'.price, bt'.before.volume) = "Pass"
            /\ direct.call.result = "ok")
           => /\ bt'.gateway_calls = 1
              /\ bt'.result.success
              /\ bt'.result.order_id = bt'.before.order_id
              /\ pool'[bt'.idx].status \in {"FILLED", "PARTIAL_CANCELED"}
              /\ asset' = direct.g.asset
              /\ positions' = direct.g.positions
              /\ trade_records' = direct.g.trade_records
              /\ Len(trade_records') = Len(trade_records) + 1]_vars

=============================================================================
